---- MODULE Spec2Model ----
(***************************************************************************)
(* Fantasy-football draft board (src/App.tsx).  The file holds two         *)
(* revisions of the App component:                                          *)
(*   "full"        src/App.tsx lines 1-422   ranks run over the whole list  *)
(*   "partitioned" src/App.tsx lines 425-937 undrafted players are ranked   *)
(*                 1..N and drafted players trail the array                 *)
(* The variable `variant` says which revision is running; it is chosen in  *)
(* Init and never changes, and so is `source`, the set of catalogs the      *)
(* Sleeper players endpoint may answer with during the run.                 *)
(***************************************************************************)
EXTENDS Integers, Sequences, FiniteSets, TLC

VARIABLES
    variant,            \* which revision of App.tsx is running
    source,             \* the catalogs the players endpoint may answer with
    startLimit,         \* how many handleStartSync calls may await a response at once
    tagChoices,         \* the tags the user toggles
    renderLag,          \* whether a click can be handled before React has rendered
                        \* the status that a network or socket callback set
    players,            \* useState<Player[]>           : sequence of Player records
    searchTerm,         \* useState('')                 : the characters typed
    positionFilter,     \* useState<Position>(Position.ALL)
    savedRankings,      \* useState<SavedRanking[]>([])  : sequence of [name, players]
    isDrafting,         \* simulation: useState<boolean>(false)
    effect,             \* simulation: the draft effect as it last ran: the live
                        \* interval timers, the one its cleanup clears, its isDrafting
    mounted,            \* simulation: the App component is mounted
    isLoading,          \* useState<boolean>            : catalog fetch spinner
    error,              \* useState<string | null>      : catalog fetch error
    catalogFetches,     \* number of fetchPlayers() calls awaiting their response
    draggedPlayerId,    \* useState<number | null>      : <<>> is null, <<id>> is id
    dragOverPlayerId,   \* useState<number | null>
    draftId,            \* useState<string | null>
    syncStatus,         \* useState<SyncStatus>  (syncStatusRef mirrors it)
    shownStatus,        \* the status prop SyncModal was last rendered with
    lastSyncTime,       \* useState<Date | null>        : "null" or "time"
    syncError,          \* useState<string | null>
    ws,                 \* useRef<WebSocket | null>     : <<>> is null, <<s>> is socket s
    sockets,            \* sockets that are open and can still deliver events
    requests,           \* sync HTTP requests awaiting their response
    watch,              \* history: the operations whose history is kept
    pre,                \* history: players/syncStatus before the last watched operation
    lastOp              \* history: the last watched operation and its arguments

vars == <<variant, source, startLimit, tagChoices, renderLag, shownStatus, players, searchTerm, positionFilter,
          savedRankings, isDrafting, effect, mounted,
          isLoading, error, catalogFetches, draggedPlayerId,
          dragOverPlayerId, draftId, syncStatus, lastSyncTime, syncError, ws,
          sockets, requests, watch, pre, lastOp>>

setupVars == <<variant, source, startLimit, tagChoices, renderLag>>
rosterVars == <<players>>
viewVars == <<searchTerm, positionFilter>>
savedVars == <<savedRankings>>
simVars == <<isDrafting, effect, mounted>>
dragVars == <<draggedPlayerId, dragOverPlayerId>>
catalogVars == <<isLoading, error, catalogFetches>>
syncVars == <<draftId, syncStatus, shownStatus, lastSyncTime, syncError, ws, sockets, requests>>

(***************************************************************************)
(* Bounds.                                                                  *)
(***************************************************************************)
MaxInFlight == 1        \* HTTP requests of one kind awaiting a response at a time
MaxPicks == 2           \* picks in one pick snapshot
MaxStarts == 2          \* handleStartSync calls awaiting a response where they overlap
MaxSockets == 2         \* sockets open at a time

(***************************************************************************)
(* JavaScript values.                                                       *)
(***************************************************************************)
NullStr == "null"                       \* null in a string-typed slot
Null == <<>>                            \* null in a number/object-typed slot
Some(x) == <<x>>
NaN == 0 - 1                            \* Number.NaN (no player id is negative)

\* a === b on numbers: NaN equals nothing, itself included
StrictEq(a, b) == a # NaN /\ b # NaN /\ a = b
\* SameValueZero, the equality of Map and Set keys: NaN equals NaN
SameValueZero(a, b) == a = b

\* if (n) on a number: NaN and 0 are falsy
Truthy(n) == n # NaN /\ n # 0

Digits == <<"0", "1", "2", "3", "4", "5", "6", "7", "8", "9">>
IsDigit(c) == \E i \in 1..10 : Digits[i] = c
DigitVal(c) == (CHOOSE i \in 1..10 : Digits[i] = c) - 1

\* length of the longest prefix of s made of decimal digits
RECURSIVE DigitPrefixLen(_)
DigitPrefixLen(s) ==
    IF s = <<>> \/ ~IsDigit(Head(s)) THEN 0 ELSE 1 + DigitPrefixLen(Tail(s))

RECURSIVE DigitsValue(_, _)
DigitsValue(s, acc) ==
    IF s = <<>> THEN acc ELSE DigitsValue(Tail(s), acc * 10 + DigitVal(Head(s)))

\* parseInt(s, 10) on a string given as its sequence of characters: the value
\* of the leading run of digits, NaN when there is none
ParseInt(s) ==
    LET n == DigitPrefixLen(s)
    IN  IF n = 0 THEN NaN ELSE DigitsValue(SubSeq(s, 1, n), 0)

(***************************************************************************)
(* Sequence helpers standing for Array.prototype methods.                   *)
(***************************************************************************)
\* Array.prototype.filter is SelectSeq; Array.prototype.map is written as the
\* function [i \in 1..Len(s) |-> F(s[i])]

\* splice(idx, 1) with a 1-based idx >= 1
RemoveAt(s, idx) == SubSeq(s, 1, idx - 1) \o SubSeq(s, idx + 1, Len(s))

\* splice(idx0, 0, x) with JavaScript's 0-based idx0; a negative idx0 counts
\* from the end (findIndex's -1 inserts before the last element)
SpliceInsert(s, idx0, x) ==
    LET at == IF idx0 < 0 THEN (IF Len(s) + idx0 < 0 THEN 0 ELSE Len(s) + idx0)
              ELSE (IF idx0 > Len(s) THEN Len(s) ELSE idx0)
    IN  SubSeq(s, 1, at) \o <<x>> \o SubSeq(s, at + 1, Len(s))

RECURSIVE InsertByRankDescending(_, _)
InsertByRankDescending(s, x) ==
    IF s = <<>> THEN <<x>>
    ELSE IF Head(s).rank >= x.rank
         THEN <<Head(s)>> \o InsertByRankDescending(Tail(s), x)
         ELSE <<x>> \o s

\* insert x into the sorted sequence s after every element with rank <= x.rank
RECURSIVE InsertByRank(_, _)
InsertByRank(s, x) ==
    IF s = <<>> THEN <<x>>
    ELSE IF Head(s).rank <= x.rank THEN <<Head(s)>> \o InsertByRank(Tail(s), x)
         ELSE <<x>> \o s

\* sort((a, b) => a.rank - b.rank): Array.prototype.sort is stable
RECURSIVE SortByRank(_)
SortByRank(s) ==
    IF s = <<>> THEN <<>>
    ELSE InsertByRank(SortByRank(SubSeq(s, 1, Len(s) - 1)), s[Len(s)])

\* map((p, index) => ({...p, rank: index + 1}))
ReRank(s) == [i \in 1..Len(s) |-> [s[i] EXCEPT !.rank = i]]

IsDrafted(p) == p.isDrafted
NotDrafted(p) == ~p.isDrafted

(***************************************************************************)
(* The catalog source: raw Sleeper records.  player_id is a string, given  *)
(* as its characters; search_rank is <<>> for null and <<n>> for n.         *)
(***************************************************************************)
Raw(pid, first, last, team, pos, status, sr, exp) ==
    [player_id |-> pid, first_name |-> first, last_name |-> last, team |-> team,
     position |-> pos, status |-> status, search_rank |-> sr, years_exp |-> exp]

R1  == Raw(<<"1">>, "Ann", "Ax", "KC", "QB", "Active", Some(20), 0)
R1t == Raw(<<"1">>, "Ann", "Ay", NullStr, "TE", "Active", Some(5), 1)
R2  == Raw(<<"2">>, "Bo", "Bx", "SF", "RB", "Active", Some(10), 3)
R3  == Raw(<<"3">>, "Cy", "Cx", "LA", "WR", "Active", Null, 1)
R4  == Raw(<<"4">>, "Di", "Dx", "KC", "K", "Active", Some(15), 0)
R5  == Raw(<<"5">>, "Ed", "Ex", "SF", "QB", "Inactive", Some(1), 2)
R6  == Raw(<<"6">>, "Fy", "Fx", "LA", "LB", "Active", Some(2), 2)
RHOU == Raw(<<"H", "O", "U">>, "Houston", "Texans", "HOU", "DST", "Active", Some(30), 4)

\* catalogs the endpoint may answer with (Object.values order): three
\* fantasy players; one of them renamed and moved, one gone, one new, two
\* records that normalization drops; a team defense with a non-numeric id
Catalogs ==
    { <<R3, R1, R2>>,
      <<R5, R1t, R4, R3, R6>>,
      <<RHOU, R2>> }

R1x == Raw(<<"1", "x">>, "Al", "Ay", "SF", "WR", "Active", Some(25), 2)
R7  == Raw(<<"7">>, "Gus", "Gx", "SF", "TE", "Active", Null, 0)

\* catalogs with two records that have no score, and with two player_id
\* strings that begin with the same digits
OddCatalogs ==
    { <<R3, R1, R7>>,
      <<R1, R1x, R2>> }

\* a catalog of two fantasy players
ShortCatalogs == { <<R1, R2>> }

\* a catalog of four fantasy players
LongCatalogs == { <<R3, R1, R2, R4>> }

(***************************************************************************)
(* normalizeSleeperData (both revisions carry the same text).               *)
(***************************************************************************)
fantasyPositions == {"QB", "RB", "WR", "TE", "K", "DST"}

KeepRecord(p) ==
    p.status = "Active" /\ p.position # NullStr /\ p.position \in fantasyPositions

HasScore(p) == p.search_rank # Null
NoScore(p) == p.search_rank = Null

RECURSIVE InsertByScore(_, _)
InsertByScore(s, x) ==
    IF s = <<>> THEN <<x>>
    ELSE IF Head(s).search_rank[1] <= x.search_rank[1]
         THEN <<Head(s)>> \o InsertByScore(Tail(s), x)
         ELSE <<x>> \o s

RECURSIVE SortByScore(_)
SortByScore(s) ==
    IF s = <<>> THEN <<>>
    ELSE InsertByScore(SortByScore(SubSeq(s, 1, Len(s) - 1)), s[Len(s)])

\* every arrangement of the elements of s
Perms(s) ==
    { [i \in 1..Len(s) |-> s[f[i]]] :
        f \in { g \in [1..Len(s) -> 1..Len(s)] :
                  \A i, j \in 1..Len(s) : i # j => g[i] # g[j] } }

\* filteredPlayers.sort(comparator).  The comparator answers 1 for (null, null)
\* in either order, so it is not a consistent comparator and the order of the
\* null-score records among themselves is implementation-defined; scored
\* records come first, ascending, ties in encounter order.
SortOutcomes(recs) ==
    { SortByScore(SelectSeq(recs, HasScore)) \o q : q \in Perms(SelectSeq(recs, NoScore)) }

ToPlayerZeroBased(p, index) ==
    [id |-> ParseInt(p.player_id),
     rank |-> index - 1,
     name |-> <<p.first_name, p.last_name>>,
     team |-> p.team,
     position |-> p.position,
     isDrafted |-> FALSE,
     tags |-> IF p.years_exp = 0 THEN <<"Rookie">> ELSE <<>>]

ToPlayer(p, index) ==
    [id |-> ParseInt(p.player_id),
     rank |-> index,
     name |-> <<p.first_name, p.last_name>>,
     team |-> p.team,
     position |-> p.position,
     isDrafted |-> FALSE,
     tags |-> IF p.years_exp = 0 THEN <<"Rookie">> ELSE <<>>]

normalizeSleeperData(data) ==
    { [i \in 1..Len(s) |-> ToPlayer(s[i], i)] : s \in SortOutcomes(SelectSeq(data, KeepRecord)) }

(***************************************************************************)
(* Roster updaters: the functions handed to setPlayers.                     *)
(***************************************************************************)
HasId(ps, id) == \E i \in 1..Len(ps) : SameValueZero(ps[i].id, id)

MergeCatalogFresh(currentPlayers, newPlayers) ==
    IF Len(currentPlayers) = 0 THEN newPlayers
    ELSE
      LET newPlayerData(id) ==
              newPlayers[CHOOSE i \in 1..Len(newPlayers) :
                  /\ SameValueZero(newPlayers[i].id, id)
                  /\ \A j \in (i + 1)..Len(newPlayers) :
                        ~SameValueZero(newPlayers[j].id, id)]
          Update(p) ==
              IF HasId(newPlayers, p.id)
              THEN [newPlayerData(p.id) EXCEPT !.rank = p.rank]
              ELSE p
          InNew(p) == HasId(newPlayers, p.id)
          IsBrandNew(p) == ~HasId(currentPlayers, p.id)
          updatedPlayers == SelectSeq([i \in 1..Len(currentPlayers) |-> Update(currentPlayers[i])], InNew)
          brandNewPlayers == SelectSeq(newPlayers, IsBrandNew)
          combinedList == updatedPlayers \o brandNewPlayers
          undrafted == SortByRank(SelectSeq(combinedList, NotDrafted))
          drafted == SelectSeq(combinedList, IsDrafted)
      IN  ReRank(undrafted) \o drafted

\* fetchPlayers, partitioned revision: the merge of a refreshed catalog
MergeCatalog(currentPlayers, newPlayers) ==
    IF Len(currentPlayers) = 0 THEN newPlayers
    ELSE
      LET newPlayerData(id) ==        \* Map.get: the last entry set for a key wins
              newPlayers[CHOOSE i \in 1..Len(newPlayers) :
                  /\ SameValueZero(newPlayers[i].id, id)
                  /\ \A j \in (i + 1)..Len(newPlayers) :
                        ~SameValueZero(newPlayers[j].id, id)]
          Update(p) ==
              IF HasId(newPlayers, p.id)
              THEN [p EXCEPT !.name = newPlayerData(p.id).name,
                             !.team = newPlayerData(p.id).team,
                             !.position = newPlayerData(p.id).position]
              ELSE p
          InNew(p) == HasId(newPlayers, p.id)
          IsBrandNew(p) == ~HasId(currentPlayers, p.id)
          updatedPlayers == SelectSeq([i \in 1..Len(currentPlayers) |-> Update(currentPlayers[i])], InNew)
          brandNewPlayers == SelectSeq(newPlayers, IsBrandNew)
          combinedList == updatedPlayers \o brandNewPlayers
          undrafted == SortByRank(SelectSeq(combinedList, NotDrafted))
          drafted == SelectSeq(combinedList, IsDrafted)
      IN  ReRank(undrafted) \o drafted

\* new Set(picks.map(pick => parseInt(pick.player_id, 10)))
DraftedPlayerIds(picks) == { ParseInt(pid) : pid \in picks }

ApplyPickSnapshotReplace(currentPlayers, draftedPlayerIds) ==
    LET Mark(player) ==
            [player EXCEPT !.isDrafted =
                \E d \in draftedPlayerIds : SameValueZero(d, player.id)]
    IN  [i \in 1..Len(currentPlayers) |-> Mark(currentPlayers[i])]

\* isDrafted: player.isDrafted || draftedPlayerIds.has(player.id)
ApplyPickSnapshot(currentPlayers, draftedPlayerIds) ==
    LET Mark(player) ==
            [player EXCEPT !.isDrafted =
                player.isDrafted \/ \E d \in draftedPlayerIds : SameValueZero(d, player.id)]
    IN  [i \in 1..Len(currentPlayers) |-> Mark(currentPlayers[i])]

ApplyPickEventFlip(currentPlayers, pickedPlayerId) ==
    LET Mark(player) ==
            IF StrictEq(player.id, pickedPlayerId)
            THEN [player EXCEPT !.isDrafted = ~player.isDrafted] ELSE player
    IN  [i \in 1..Len(currentPlayers) |-> Mark(currentPlayers[i])]

\* player.id === pickedPlayerId ? {...player, isDrafted: true} : player
ApplyPickEvent(currentPlayers, pickedPlayerId) ==
    LET Mark(player) ==
            IF StrictEq(player.id, pickedPlayerId)
            THEN [player EXCEPT !.isDrafted = TRUE] ELSE player
    IN  [i \in 1..Len(currentPlayers) |-> Mark(currentPlayers[i])]

\* a reset that leaves the drafted flags alone
ResetDraftedKept(currentPlayers) == currentPlayers

\* handleRemoveSync: isDrafted: false for every player
ResetDrafted(currentPlayers) ==
    LET Clear(player) == [player EXCEPT !.isDrafted = FALSE]
    IN  [i \in 1..Len(currentPlayers) |-> Clear(currentPlayers[i])]

Includes(s, x) == \E i \in 1..Len(s) : s[i] = x

\* a toggle that only ever adds the tag
TogglePlayerTagAddOnly(current, playerId, tag) ==
    LET Add(p) == IF StrictEq(p.id, playerId) THEN [p EXCEPT !.tags = Append(p.tags, tag)]
                  ELSE p
    IN  [i \in 1..Len(current) |-> Add(current[i])]

\* handleTogglePlayerTag
TogglePlayerTag(current, playerId, tag) ==
    LET NotTag(t) == t # tag
        Toggle(p) ==
            IF StrictEq(p.id, playerId)
            THEN [p EXCEPT !.tags = IF Includes(p.tags, tag)
                                    THEN SelectSeq(p.tags, NotTag)
                                    ELSE Append(p.tags, tag)]
            ELSE p
    IN  [i \in 1..Len(current) |-> Toggle(current[i])]

\* a toggle that only ever marks the player drafted
FlipDraftedMarkOnly(currentPlayers, playerId) ==
    LET Mark(p) == IF StrictEq(p.id, playerId) THEN [p EXCEPT !.isDrafted = TRUE] ELSE p
    IN  [i \in 1..Len(currentPlayers) |-> Mark(currentPlayers[i])]

FlipDrafted(currentPlayers, playerId) ==
    LET Flip(p) == IF StrictEq(p.id, playerId)
                   THEN [p EXCEPT !.isDrafted = ~p.isDrafted] ELSE p
    IN  [i \in 1..Len(currentPlayers) |-> Flip(currentPlayers[i])]

\* handleToggleDraftStatus, full revision
ToggleDraftStatusFull(currentPlayers, playerId) == FlipDrafted(currentPlayers, playerId)

\* handleToggleDraftStatus, partitioned revision
ToggleDraftStatusPart(currentPlayers, playerId) ==
    LET updatedPlayers == FlipDrafted(currentPlayers, playerId)
        undrafted == SortByRank(SelectSeq(updatedPlayers, NotDrafted))
        drafted == SelectSeq(updatedPlayers, IsDrafted)
    IN  ReRank(undrafted) \o drafted

\* find / findIndex(p => p.id === id): the 1-based index of the first player
\* with this id, 0 when there is none (undefined, -1)
Find(ps, id) ==
    IF \E i \in 1..Len(ps) : StrictEq(ps[i].id, id)
    THEN CHOOSE i \in 1..Len(ps) :
            /\ StrictEq(ps[i].id, id)
            /\ \A j \in 1..(i - 1) : ~StrictEq(ps[j].id, id)
    ELSE 0

\* a guard that does not look at whether the target is drafted
DropAcceptedAnyTarget(currentPlayers, draggedId, targetId) ==
    /\ Find(currentPlayers, draggedId) # 0
    /\ ~currentPlayers[Find(currentPlayers, draggedId)].isDrafted
    /\ Find(currentPlayers, targetId) # 0

\* the guard inside handleDrop's updater: both players found and undrafted
DropAccepted(currentPlayers, draggedId, targetId) ==
    /\ Find(currentPlayers, draggedId) # 0
    /\ ~currentPlayers[Find(currentPlayers, draggedId)].isDrafted
    /\ Find(currentPlayers, targetId) # 0
    /\ ~currentPlayers[Find(currentPlayers, targetId)].isDrafted

MoveAfter(playersCopy, draggedId, targetId) ==
    LET draggedIdx == Find(playersCopy, draggedId)
        removed == playersCopy[draggedIdx]
        rest == RemoveAt(playersCopy, draggedIdx)
        targetIdx == Find(rest, targetId)
    IN  SpliceInsert(rest, targetIdx, removed)

\* remove the dragged element, insert it at the index the target then has
MoveBefore(playersCopy, draggedId, targetId) ==
    LET draggedIdx == Find(playersCopy, draggedId)
        removed == playersCopy[draggedIdx]
        rest == RemoveAt(playersCopy, draggedIdx)
        targetIdx == Find(rest, targetId) - 1
    IN  SpliceInsert(rest, targetIdx, removed)

\* handleDrop's updater, full revision
DropFull(currentPlayers, draggedId, targetId) ==
    IF ~DropAccepted(currentPlayers, draggedId, targetId) THEN currentPlayers
    ELSE ReRank(MoveBefore(currentPlayers, draggedId, targetId))

\* a drop that ranks the drafted players along with the undrafted
DropPartRankAll(currentPlayers, draggedId, targetId) ==
    IF ~DropAccepted(currentPlayers, draggedId, targetId) THEN currentPlayers
    ELSE ReRank(MoveBefore(SelectSeq(currentPlayers, NotDrafted), draggedId, targetId)
                \o SelectSeq(currentPlayers, IsDrafted))

\* handleDrop's updater, partitioned revision
DropPart(currentPlayers, draggedId, targetId) ==
    IF ~DropAccepted(currentPlayers, draggedId, targetId) THEN currentPlayers
    ELSE LET playersCopy == SelectSeq(currentPlayers, NotDrafted)
             draftedPlayers == SelectSeq(currentPlayers, IsDrafted)
         IN  ReRank(MoveBefore(playersCopy, draggedId, targetId)) \o draftedPlayers

(***************************************************************************)
(* displayPlayers: the projection of the roster that is rendered.           *)
(***************************************************************************)
\* the characters of the name and team strings of the catalogs
Spell(s) ==
    CASE s = "Ann" -> <<"A", "n", "n">>
      [] s = "Ax" -> <<"A", "x">>
      [] s = "Ay" -> <<"A", "y">>
      [] s = "Al" -> <<"A", "l">>
      [] s = "Bo" -> <<"B", "o">>
      [] s = "Bx" -> <<"B", "x">>
      [] s = "Cy" -> <<"C", "y">>
      [] s = "Cx" -> <<"C", "x">>
      [] s = "Di" -> <<"D", "i">>
      [] s = "Dx" -> <<"D", "x">>
      [] s = "Ed" -> <<"E", "d">>
      [] s = "Ex" -> <<"E", "x">>
      [] s = "Fy" -> <<"F", "y">>
      [] s = "Fx" -> <<"F", "x">>
      [] s = "Gus" -> <<"G", "u", "s">>
      [] s = "Gx" -> <<"G", "x">>
      [] s = "Houston" -> <<"H", "o", "u", "s", "t", "o", "n">>
      [] s = "Texans" -> <<"T", "e", "x", "a", "n", "s">>
      [] s = "KC" -> <<"K", "C">>
      [] s = "SF" -> <<"S", "F">>
      [] s = "LA" -> <<"L", "A">>
      [] s = "HOU" -> <<"H", "O", "U">>
      [] OTHER -> <<>>

UpperCase == <<"A", "B", "C", "D", "E", "F", "G", "H", "I", "J", "K", "L", "M",
               "N", "O", "P", "Q", "R", "S", "T", "U", "V", "W", "X", "Y", "Z">>
LowerCase == <<"a", "b", "c", "d", "e", "f", "g", "h", "i", "j", "k", "l", "m",
               "n", "o", "p", "q", "r", "s", "t", "u", "v", "w", "x", "y", "z">>

\* String.prototype.toLowerCase, character by character
ToLowerCase(str) ==
    LET Lower(c) == IF \E k \in 1..Len(UpperCase) : UpperCase[k] = c
                    THEN LowerCase[CHOOSE k \in 1..Len(UpperCase) : UpperCase[k] = c]
                    ELSE c
    IN  [i \in 1..Len(str) |-> Lower(str[i])]

\* String.prototype.includes: needle is a substring of hay
StrIncludes(hay, needle) ==
    \E i \in 0..(Len(hay) - Len(needle)) : SubSeq(hay, i + 1, i + Len(needle)) = needle

\* p.name, the template `${p.first_name} ${p.last_name}`, as characters
NameChars(p) == Spell(p.name[1]) \o <<" ">> \o Spell(p.name[2])

\* the first filter: the name or the (non-null) team includes the term
MatchesSearch(p, term) ==
    \/ StrIncludes(ToLowerCase(NameChars(p)), ToLowerCase(term))
    \/ /\ p.team # NullStr
       /\ StrIncludes(ToLowerCase(Spell(p.team)), ToLowerCase(term))

\* the second filter
MatchesPosition(p, filter) == filter = "ALL" \/ p.position = filter

\* a comparator that puts the higher rank first
DisplayCompareDescending(a, b) == b.rank - a.rank

\* the comparator of the sort, by revision
DisplayCompare(a, b) ==
    IF variant = "full" THEN a.rank - b.rank
    ELSE IF a.isDrafted /\ ~b.isDrafted THEN 1
    ELSE IF ~a.isDrafted /\ b.isDrafted THEN 0 - 1
    ELSE a.rank - b.rank

RECURSIVE InsertForDisplay(_, _)
InsertForDisplay(s, x) ==
    IF s = <<>> THEN <<x>>
    ELSE IF DisplayCompare(Head(s), x) <= 0
         THEN <<Head(s)>> \o InsertForDisplay(Tail(s), x)
         ELSE <<x>> \o s

\* the stable sort of the filtered copy
RECURSIVE SortForDisplay(_)
SortForDisplay(s) ==
    IF s = <<>> THEN <<>>
    ELSE InsertForDisplay(SortForDisplay(SubSeq(s, 1, Len(s) - 1)), s[Len(s)])

displayPlayers ==
    LET BySearch(p) == MatchesSearch(p, searchTerm)
        ByPosition(p) == MatchesPosition(p, positionFilter)
    IN  SortForDisplay(SelectSeq(SelectSeq(players, BySearch), ByPosition))

(***************************************************************************)
(* History kept for stating the properties.  In the state that follows a   *)
(* roster operation named in `watch`, pre holds the roster and the sync    *)
(* status the operation started from and lastOp holds its arguments.       *)
(* lastOp.again says that the step before was the same operation with the   *)
(* same arguments, and pre.before then holds the roster that earlier step   *)
(* started from.  Every other step clears the history.                      *)
(***************************************************************************)
NoOp ==
    [op |-> "none", id |-> 0, id2 |-> 0, tag |-> "", ids |-> {}, data |-> <<>>,
     again |-> FALSE]

NoPre == [players |-> <<>>, syncStatus |-> "idle", before |-> <<>>]

Unrecorded ==
    /\ watch' = watch
    /\ pre' = NoPre
    /\ lastOp' = NoOp

\* the step before was the operation op with these same arguments
Repeats(op, id, id2, tag, ids, data) ==
    /\ lastOp.op = op /\ lastOp.id = id /\ lastOp.id2 = id2
    /\ lastOp.tag = tag /\ lastOp.ids = ids /\ lastOp.data = data

Record(op, id, id2, tag, ids, data) ==
    IF op \in watch
    THEN /\ watch' = watch
         /\ pre' = [players |-> players, syncStatus |-> syncStatus,
                    \* the roster the first of two equal operations started from
                    before |-> IF Repeats(op, id, id2, tag, ids, data)
                               THEN pre.players ELSE <<>>]
         /\ lastOp' = [op |-> op, id |-> id, id2 |-> id2, tag |-> tag, ids |-> ids,
                       data |-> data,
                       again |-> Repeats(op, id, id2, tag, ids, data)]
    ELSE Unrecorded

(***************************************************************************)
(* The user's inputs.                                                       *)
(***************************************************************************)
TagInputs == {"Bust"}

\* a tag the user sets and the tag normalization sets
BothTagInputs == {"Bust", "Rookie"}

\* what the user types into the search box, and the position buttons
SearchInputs == { <<>>, <<"A">>, <<"N", " ", "a">>, <<"k", "C">>, <<"z">> }
PositionInputs == {"ALL", "QB", "WR", "DST"}

\* the rows are rendered only when the catalog is neither loading nor failed
RowsShown == ~isLoading /\ error = NullStr

\* ids of the rendered rows
RowIds == { players[i].id : i \in 1..Len(players) }

(***************************************************************************)
(* Catalog fetch.                                                           *)
(***************************************************************************)
\* handleRefreshPlayers (partitioned revision): fetchPlayers up to its await
handleRefreshPlayers ==
    /\ variant = "partitioned"
    /\ catalogFetches < MaxInFlight
    /\ catalogFetches' = catalogFetches + 1
    /\ isLoading' = TRUE
    /\ error' = NullStr
    /\ UNCHANGED <<setupVars, simVars, savedVars, viewVars, rosterVars, dragVars, syncVars>>
    /\ Unrecorded

\* fetchPlayers after its await, response ok, full revision: setPlayers(newPlayers)
fetchPlayersOkFull ==
    /\ variant = "full"
    /\ catalogFetches > 0
    /\ \E data \in source : \E newPlayers \in normalizeSleeperData(data) :
          /\ players' = newPlayers
          /\ Record("replaceAll", 0, 0, "", {}, data)
    /\ catalogFetches' = catalogFetches - 1
    /\ isLoading' = FALSE
    /\ UNCHANGED <<setupVars, simVars, savedVars, viewVars, error, dragVars, syncVars>>

\* fetchPlayers after its await, response ok, partitioned revision
fetchPlayersOkPart ==
    /\ variant = "partitioned"
    /\ catalogFetches > 0
    /\ \E data \in source : \E newPlayers \in normalizeSleeperData(data) :
          /\ players' = MergeCatalog(players, newPlayers)
          /\ Record(IF Len(players) = 0 THEN "replaceAll" ELSE "mergeCatalog",
                    0, 0, "", {}, data)
    /\ catalogFetches' = catalogFetches - 1
    /\ isLoading' = FALSE
    /\ UNCHANGED <<setupVars, simVars, savedVars, viewVars, error, dragVars, syncVars>>

\* a failure that throws the roster away
fetchPlayersFailEmptied ==
    /\ catalogFetches > 0
    /\ catalogFetches' = catalogFetches - 1
    /\ error' = "Failed to fetch player data. Please try refreshing the page."
    /\ isLoading' = FALSE
    /\ UNCHANGED <<setupVars, simVars, savedVars, viewVars, dragVars, syncVars>>
    /\ players' = <<>>
    /\ Record("catalogFailed", 0, 0, "", {}, <<>>)

\* fetchPlayers after its await, network error or non-OK status
fetchPlayersFail ==
    /\ catalogFetches > 0
    /\ catalogFetches' = catalogFetches - 1
    /\ error' = "Failed to fetch player data. Please try refreshing the page."
    /\ isLoading' = FALSE
    /\ UNCHANGED <<setupVars, simVars, savedVars, viewVars, dragVars, syncVars>>
    /\ players' = players
    /\ Record("catalogFailed", 0, 0, "", {}, <<>>)

(***************************************************************************)
(* Search box and position filter (Header).                                 *)
(***************************************************************************)
setSearchTerm ==
    /\ \E term \in SearchInputs : searchTerm' = term
    /\ UNCHANGED <<setupVars, simVars, savedVars, positionFilter, rosterVars, catalogVars, dragVars, syncVars>>
    /\ Unrecorded

setPositionFilter ==
    /\ \E pos \in PositionInputs : positionFilter' = pos
    /\ UNCHANGED <<setupVars, simVars, savedVars, searchTerm, rosterVars, catalogVars, dragVars, syncVars>>
    /\ Unrecorded

(***************************************************************************)
(* Saved rankings (partitioned revision only).                              *)
(***************************************************************************)
\* names the user gives a saved ranking
SaveNames == {"mine"}

\* prev.findIndex(s => s.name === name): the first position, 0 for -1
FindSaved(list, name) ==
    IF \E i \in 1..Len(list) : list[i].name = name
    THEN CHOOSE i \in 1..Len(list) :
             /\ list[i].name = name
             /\ \A j \in 1..(i - 1) : list[j].name # name
    ELSE 0

\* the list handleSaveWithName stores: the save replaces the one of its name
\* or is pushed at the end
SaveRanking(list, name, ps) ==
    LET newSave == [name |-> name, players |-> ps]
        existingIndex == FindSaved(list, name)
    IN IF existingIndex > 0
       THEN [list EXCEPT ![existingIndex] = newSave]
       ELSE Append(list, newSave)

handleSaveWithName ==
    /\ variant = "partitioned"
    /\ \E name \in SaveNames :
          savedRankings' = SaveRanking(savedRankings, name, players)
    /\ UNCHANGED <<setupVars, simVars, viewVars, rosterVars, catalogVars, dragVars, syncVars>>
    /\ Unrecorded

\* the saved list replaces the roster as it is, and the view is reset; a name
\* that is not saved only raises an alert
handleLoadFromStorage ==
    /\ variant = "partitioned"
    /\ \E name \in SaveNames :
          LET found == FindSaved(savedRankings, name)
          IN IF found > 0
             THEN /\ players' = savedRankings[found].players
                  /\ searchTerm' = <<>>
                  /\ positionFilter' = "ALL"
                  /\ Record("loadSaved", 0, 0, name, {}, savedRankings[found].players)
             ELSE /\ UNCHANGED <<rosterVars, viewVars>>
                  /\ Unrecorded
    /\ UNCHANGED <<setupVars, simVars, savedVars, catalogVars, dragVars, syncVars>>

handleDeleteRanking ==
    /\ variant = "partitioned"
    /\ \E name \in SaveNames :
          /\ FindSaved(savedRankings, name) > 0
          /\ savedRankings' = SelectSeq(savedRankings, LAMBDA r : r.name # name)
    /\ UNCHANGED <<setupVars, simVars, viewVars, rosterVars, catalogVars, dragVars, syncVars>>
    /\ Unrecorded

(***************************************************************************)
(* Tags and manual draft toggle.                                            *)
(***************************************************************************)
handleTogglePlayerTag ==
    /\ RowsShown
    /\ \E playerId \in RowIds, tag \in tagChoices :
          /\ players' = TogglePlayerTag(players, playerId, tag)
          /\ Record("toggleTag", playerId, 0, tag, {}, <<>>)
    /\ UNCHANGED <<setupVars, simVars, savedVars, viewVars, catalogVars, dragVars, syncVars>>

handleToggleDraftStatus ==
    /\ RowsShown
    /\ \E playerId \in RowIds :
          /\ players' = IF variant = "full"
                        THEN ToggleDraftStatusFull(players, playerId)
                        ELSE ToggleDraftStatusPart(players, playerId)
          /\ Record("toggleDrafted", playerId, 0, "", {}, <<>>)
    /\ UNCHANGED <<setupVars, simVars, savedVars, viewVars, catalogVars, dragVars, syncVars>>

(***************************************************************************)
(* Drag and drop.                                                           *)
(***************************************************************************)
handleDragStart ==
    /\ RowsShown
    /\ \E playerId \in RowIds :
          /\ Find(players, playerId) # 0
          /\ ~players[Find(players, playerId)].isDrafted
          /\ draggedPlayerId' = Some(playerId)
    /\ UNCHANGED <<setupVars, simVars, savedVars, viewVars, rosterVars, catalogVars, dragOverPlayerId, syncVars>>
    /\ Unrecorded

\* dragenter is delivered to a row only while a drag is under way
handleDragEnter ==
    /\ RowsShown
    /\ draggedPlayerId # Null
    /\ \E targetPlayerId \in RowIds :
          /\ ~StrictEq(draggedPlayerId[1], targetPlayerId)
          /\ Find(players, targetPlayerId) # 0
          /\ ~players[Find(players, targetPlayerId)].isDrafted
          /\ dragOverPlayerId' = Some(targetPlayerId)
    /\ UNCHANGED <<setupVars, simVars, savedVars, viewVars, rosterVars, catalogVars, draggedPlayerId, syncVars>>
    /\ Unrecorded

handleDragEnd ==
    /\ RowsShown
    /\ draggedPlayerId # Null
    /\ draggedPlayerId' = Null
    /\ dragOverPlayerId' = Null
    /\ UNCHANGED <<setupVars, simVars, savedVars, viewVars, rosterVars, catalogVars, syncVars>>
    /\ Unrecorded

\* the early return of handleDrop
DropIgnored ==
    \/ draggedPlayerId = Null
    \/ dragOverPlayerId = Null
    \/ StrictEq(draggedPlayerId[1], dragOverPlayerId[1])

handleDrop ==
    /\ draggedPlayerId # Null       \* a drop ends a drag that is under way
    /\ IF DropIgnored
       THEN /\ UNCHANGED <<rosterVars, dragVars>>
            /\ Record("dropIgnored", draggedPlayerId[1],
                      IF dragOverPlayerId = Null THEN 0 ELSE dragOverPlayerId[1],
                      "", {}, <<>>)
       ELSE /\ players' = IF variant = "full"
                          THEN DropFull(players, draggedPlayerId[1], dragOverPlayerId[1])
                          ELSE DropPart(players, draggedPlayerId[1], dragOverPlayerId[1])
            /\ draggedPlayerId' = Null
            /\ dragOverPlayerId' = Null
            /\ Record("drop", draggedPlayerId[1], dragOverPlayerId[1], "", {}, <<>>)
    /\ UNCHANGED <<setupVars, simVars, savedVars, viewVars, catalogVars, syncVars>>

(***************************************************************************)
(* The draft feed.                                                          *)
(***************************************************************************)
\* a draft URL: whether it contains "sleeper.com/draft/nfl/", and the
\* characters that follow it
UrlInputs ==
    { [base |-> TRUE, rest |-> <<"7">>],
      [base |-> TRUE, rest |-> <<"x", "7">>],
      [base |-> FALSE, rest |-> <<"7">>] }

\* url.match(/sleeper\.com\/draft\/nfl\/(\d+)/): <<>> when there is no match
DraftIdOf(url) ==
    IF url.base /\ DigitPrefixLen(url.rest) > 0
    THEN SubSeq(url.rest, 1, DigitPrefixLen(url.rest))
    ELSE Null

\* player_id strings a pick may carry
PickIds == { <<"1">>, <<"2">>, <<"3">>, <<"4">>, <<"9">>, <<"H", "O", "U">> }

SnapshotInputs == { S \in SUBSET PickIds : Cardinality(S) <= MaxPicks }

\* frames the push channel delivers
Frames ==
    { [type |-> "welcome", player_id |-> <<>>], [type |-> "other", player_id |-> <<>>] }
    \cup { [type |-> "draft_pick", player_id |-> pid] : pid \in PickIds }

\* HTTP statuses of a response that is not ok: not found, and any other
NotFound == 404
ServerError == 500
FailureStatuses == {NotFound, ServerError}

\* a socket id not in use
FreshSocket ==
    CHOOSE n \in 1..(Cardinality(sockets) + 2) :
        /\ n \notin sockets
        /\ ws # Some(n)
        /\ \A m \in 1..(n - 1) : m \in sockets \/ ws = Some(m)

\* what SyncModal renders: the start form in idle/error, the controls otherwise
\* (pause and refresh disabled while syncing)
StartShown == shownStatus \in {"idle", "error"}
PauseEnabled == shownStatus \in {"active", "paused"}
RemoveShown == shownStatus \in {"active", "paused", "syncing"}

RemoveRequest(i) == SubSeq(requests, 1, i - 1) \o SubSeq(requests, i + 1, Len(requests))

\* a start that sends the draft-validation request whatever the URL is
handleStartSyncInvalidSent ==
    /\ StartShown
    /\ \E url \in UrlInputs :
          /\ DraftIdOf(url) = Null
          /\ requests' = Append(requests, [kind |-> "draftInfo", draft |-> url.rest])
    /\ syncError' = "Invalid Sleeper draft URL. Please check the format."
    /\ syncStatus' = "error"
    /\ UNCHANGED <<setupVars, simVars, savedVars, viewVars, rosterVars, catalogVars, dragVars, draftId, lastSyncTime,
                   ws, sockets>>
    /\ Record("startInvalid", 0, 0, "", {}, <<>>)
    /\ shownStatus' = syncStatus'

\* handleStartSync with a URL that does not match
handleStartSyncInvalid ==
    /\ StartShown
    /\ \E url \in UrlInputs : DraftIdOf(url) = Null
    /\ syncError' = "Invalid Sleeper draft URL. Please check the format."
    /\ syncStatus' = "error"
    /\ UNCHANGED <<setupVars, simVars, savedVars, viewVars, rosterVars, catalogVars, dragVars, draftId, lastSyncTime,
                   ws, sockets, requests>>
    /\ Record("startInvalid", 0, 0, "", {}, <<>>)
    /\ shownStatus' = syncStatus'

\* handleStartSync up to its first await, full revision: cleanupWebSocket(),
\* then the draft-validation request
handleStartSyncFull ==
    /\ variant = "full"
    /\ StartShown
    /\ Len(requests) < startLimit
    /\ \E url \in UrlInputs :
          /\ DraftIdOf(url) # Null
          /\ requests' = Append(requests, [kind |-> "draftInfo", draft |-> DraftIdOf(url)])
    /\ sockets' = IF ws = Null THEN sockets ELSE sockets \ {ws[1]}
    /\ ws' = Null
    /\ syncStatus' = "syncing"
    /\ syncError' = NullStr
    /\ UNCHANGED <<setupVars, simVars, savedVars, viewVars, rosterVars, catalogVars, dragVars, draftId, lastSyncTime>>
    /\ Unrecorded
    /\ shownStatus' = syncStatus'

\* handleStartSync up to its first await, partitioned revision: fetchDraftPicks
handleStartSyncPart ==
    /\ variant = "partitioned"
    /\ StartShown
    /\ Len(requests) < startLimit
    /\ \E url \in UrlInputs :
          /\ DraftIdOf(url) # Null
          /\ requests' = Append(requests, [kind |-> "startPicks", draft |-> DraftIdOf(url)])
    /\ syncStatus' = "syncing"
    /\ syncError' = NullStr
    /\ UNCHANGED <<setupVars, simVars, savedVars, viewVars, rosterVars, catalogVars, dragVars, draftId, lastSyncTime,
                   ws, sockets>>
    /\ Unrecorded
    /\ shownStatus' = syncStatus'

\* full revision, step 1 answered ok: the picks request goes out
draftInfoOk ==
    /\ \E i \in 1..Len(requests) :
          /\ requests[i].kind = "draftInfo"
          /\ requests' = [requests EXCEPT ![i].kind = "initialPicks"]
    /\ UNCHANGED <<setupVars, simVars, savedVars, viewVars, rosterVars, catalogVars, dragVars, draftId, syncStatus,
                   lastSyncTime, syncError, ws, sockets>>
    /\ Unrecorded
    /\ shownStatus' = IF renderLag THEN shownStatus ELSE syncStatus'

\* full revision, a failed step of handleStartSync (404 or other status on
\* the draft, other status on the picks, network error): the catch block
startSyncFailFull ==
    /\ \E i \in 1..Len(requests) :
          /\ requests[i].kind \in {"draftInfo", "initialPicks"}
          /\ requests' = RemoveRequest(i)
          /\ \E msg \in IF requests[i].kind = "draftInfo"
                        THEN {"Draft not found. Please check if the URL is correct.",
                              "Failed to verify draft"}
                        ELSE {"Failed to fetch draft data"} :
                syncError' = msg
          /\ IF requests[i].kind = "initialPicks"
             THEN Record("picksFailed", ServerError, 0, "start", {}, <<>>)
             ELSE Record("draftFailed", 0, 0, "start", {}, <<>>)
    /\ syncStatus' = "error"
    /\ sockets' = IF ws = Null THEN sockets ELSE sockets \ {ws[1]}
    /\ ws' = Null
    /\ UNCHANGED <<setupVars, simVars, savedVars, viewVars, rosterVars, catalogVars, dragVars, draftId, lastSyncTime>>
    /\ shownStatus' = IF renderLag THEN shownStatus ELSE syncStatus'

\* full revision, step 2 answered ok: the snapshot is merged, then step 3
\* opens the socket
initialPicksOk ==
    /\ Cardinality(sockets) < MaxSockets
    /\ \E i \in 1..Len(requests) :
          /\ requests[i].kind = "initialPicks"
          /\ requests' = RemoveRequest(i)
          /\ draftId' = requests[i].draft
    /\ \E picks \in SnapshotInputs :
          /\ players' = ApplyPickSnapshot(players, DraftedPlayerIds(picks))
          /\ Record("pickSnapshot", 0, 0, "", DraftedPlayerIds(picks), <<>>)
    /\ lastSyncTime' = "time"
    /\ sockets' = sockets \cup {FreshSocket}
    /\ ws' = Some(FreshSocket)
    /\ UNCHANGED <<setupVars, simVars, savedVars, viewVars, catalogVars, dragVars, syncStatus, syncError>>
    /\ shownStatus' = IF renderLag THEN shownStatus ELSE syncStatus'

\* full revision, step 2 answered 404 (draft not started): step 3 all the same
initialPicksNotFound ==
    /\ Cardinality(sockets) < MaxSockets
    /\ \E i \in 1..Len(requests) :
          /\ requests[i].kind = "initialPicks"
          /\ requests' = RemoveRequest(i)
          /\ draftId' = requests[i].draft
    /\ sockets' = sockets \cup {FreshSocket}
    /\ ws' = Some(FreshSocket)
    /\ UNCHANGED <<setupVars, simVars, savedVars, viewVars, rosterVars, catalogVars, dragVars, syncStatus, lastSyncTime,
                   syncError>>
    /\ Record("picksFailed", NotFound, 0, "start", {}, <<>>)
    /\ shownStatus' = IF renderLag THEN shownStatus ELSE syncStatus'

\* partitioned revision: fetchDraftPicks answered ok inside handleStartSync
startPicksOk ==
    /\ Cardinality(sockets) < MaxSockets
    /\ \E i \in 1..Len(requests) :
          /\ requests[i].kind = "startPicks"
          /\ requests' = RemoveRequest(i)
          /\ draftId' = requests[i].draft
    /\ \E picks \in SnapshotInputs :
          /\ players' = ApplyPickSnapshot(players, DraftedPlayerIds(picks))
          /\ Record("pickSnapshot", 0, 0, "", DraftedPlayerIds(picks), <<>>)
    /\ lastSyncTime' = "time"
    /\ sockets' = (IF ws = Null THEN sockets ELSE sockets \ {ws[1]}) \cup {FreshSocket}
    /\ ws' = Some(FreshSocket)
    /\ UNCHANGED <<setupVars, simVars, savedVars, viewVars, catalogVars, dragVars, syncStatus, syncError>>
    /\ shownStatus' = IF renderLag THEN shownStatus ELSE syncStatus'

\* a failed fetchDraftPicks after which the socket is opened all the same
fetchDraftPicksFailConnects ==
    /\ Cardinality(sockets) < MaxSockets
    /\ \E i \in 1..Len(requests), status \in FailureStatuses :
          /\ requests[i].kind \in {"startPicks", "refreshPicks"}
          /\ requests' = RemoveRequest(i)
          /\ Record("picksFailed", status, 0,
                    IF requests[i].kind = "startPicks" THEN "start" ELSE "refresh", {}, <<>>)
    /\ syncError' = "Failed to fetch draft data."
    /\ syncStatus' = "error"
    /\ sockets' = sockets \cup {FreshSocket}
    /\ ws' = Some(FreshSocket)
    /\ UNCHANGED <<setupVars, simVars, savedVars, viewVars, rosterVars, catalogVars, dragVars, draftId, lastSyncTime>>
    /\ shownStatus' = IF renderLag THEN shownStatus ELSE syncStatus'

\* partitioned revision: fetchDraftPicks failed (any non-OK status, 404
\* included, or a network error), inside handleStartSync or handleForceRefresh
fetchDraftPicksFail ==
    /\ \E i \in 1..Len(requests), status \in FailureStatuses :
          /\ requests[i].kind \in {"startPicks", "refreshPicks"}
          /\ requests' = RemoveRequest(i)
          /\ Record("picksFailed", status, 0,
                    IF requests[i].kind = "startPicks" THEN "start" ELSE "refresh", {}, <<>>)
    /\ syncError' = "Failed to fetch draft data."
    /\ syncStatus' = "error"
    /\ UNCHANGED <<setupVars, simVars, savedVars, viewVars, rosterVars, catalogVars, dragVars, draftId, lastSyncTime,
                   ws, sockets>>
    /\ shownStatus' = IF renderLag THEN shownStatus ELSE syncStatus'

\* for the history: the pick that the step before ignored, and 1 when there
\* was one
IgnoredBefore == IF lastOp.op = "pickIgnored" THEN <<lastOp.id, 1>> ELSE <<0, 0>>

\* a pause button that, on resume, applies the pick that was just ignored
handleTogglePauseSyncReplays ==
    /\ PauseEnabled
    /\ syncStatus' = IF syncStatus = "active" THEN "paused" ELSE "active"
    /\ players' = IF syncStatus = "paused" /\ lastOp.op = "pickIgnored"
                  THEN ApplyPickEvent(players, lastOp.id) ELSE players
    /\ UNCHANGED <<setupVars, simVars, savedVars, viewVars, catalogVars, dragVars, draftId, lastSyncTime,
                   syncError, ws, sockets, requests>>
    /\ Record("togglePause", IgnoredBefore[1], IgnoredBefore[2], "", {}, <<>>)
    /\ shownStatus' = syncStatus'

\* the pause button of SyncModal (rendered for the status shown, disabled
\* while it is "syncing"); the updater works on the status of the state
handleTogglePauseSync ==
    /\ PauseEnabled
    /\ syncStatus' = IF syncStatus = "active" THEN "paused" ELSE "active"
    /\ UNCHANGED <<setupVars, simVars, savedVars, viewVars, rosterVars, catalogVars, dragVars, draftId, lastSyncTime,
                   syncError, ws, sockets, requests>>
    /\ Record("togglePause", IgnoredBefore[1], IgnoredBefore[2], "", {}, <<>>)
    /\ shownStatus' = syncStatus'

\* handleForceRefresh up to its await
handleForceRefresh ==
    /\ PauseEnabled
    /\ draftId # Null
    /\ Len(requests) < MaxInFlight
    /\ IF variant = "full"
       THEN /\ requests' = Append(requests, [kind |-> "refresh", draft |-> draftId])
            /\ UNCHANGED <<syncStatus, syncError>>
       ELSE /\ requests' = Append(requests, [kind |-> "refreshPicks", draft |-> draftId])
            /\ syncStatus' = "syncing"
            /\ syncError' = NullStr
    /\ UNCHANGED <<setupVars, simVars, savedVars, viewVars, rosterVars, catalogVars, dragVars, draftId, lastSyncTime,
                   ws, sockets>>
    /\ Unrecorded
    /\ shownStatus' = syncStatus'

\* handleForceRefresh after its await, response ok (either revision)
forceRefreshOk ==
    /\ \E i \in 1..Len(requests) :
          /\ requests[i].kind \in {"refresh", "refreshPicks"}
          /\ requests' = RemoveRequest(i)
    /\ \E picks \in SnapshotInputs :
          /\ players' = ApplyPickSnapshot(players, DraftedPlayerIds(picks))
          /\ Record("pickSnapshot", 0, 0, "", DraftedPlayerIds(picks), <<>>)
    /\ lastSyncTime' = "time"
    /\ UNCHANGED <<setupVars, simVars, savedVars, viewVars, catalogVars, dragVars, draftId, syncStatus, syncError,
                   ws, sockets>>
    /\ shownStatus' = IF renderLag THEN shownStatus ELSE syncStatus'

\* full revision: handleForceRefresh failed; the user is alerted, no state changes
forceRefreshFailFull ==
    /\ \E i \in 1..Len(requests), status \in FailureStatuses :
          /\ requests[i].kind = "refresh"
          /\ requests' = RemoveRequest(i)
          /\ Record("picksFailed", status, 0, "refresh", {}, <<>>)
    /\ UNCHANGED <<setupVars, simVars, savedVars, viewVars, rosterVars, catalogVars, dragVars, draftId, syncStatus,
                   lastSyncTime, syncError, ws, sockets>>
    /\ shownStatus' = IF renderLag THEN shownStatus ELSE syncStatus'

\* 1 when socket s is not the one held in ws.current (it was replaced), else 0
Stale(s) == IF ws = Some(s) THEN 0 ELSE 1

\* an onmessage that does not look at which socket is the current one
MessageHeardFromAny(s) == syncStatus # "paused"

\* an onmessage that does not look at the paused status
MessageHeardWhilePaused(s) == variant = "full" => ws = Some(s)

\* whether onmessage of socket s gets past its first line
MessageHeard(s) ==
    /\ syncStatus # "paused"
    /\ variant = "full" => ws = Some(s)

\* onmessage of an open socket, frame "welcome"
wsWelcome ==
    /\ \E s \in sockets :
          IF MessageHeard(s)
          THEN /\ syncStatus' = "active"
               /\ syncError' = NullStr
               /\ Record("welcome", 0, Stale(s), "", {}, <<>>)
          ELSE /\ UNCHANGED <<syncStatus, syncError>>
               /\ Record("welcomeIgnored", 0, Stale(s), "", {}, <<>>)
    /\ UNCHANGED <<setupVars, simVars, savedVars, viewVars, rosterVars, catalogVars, dragVars, draftId, lastSyncTime,
                   ws, sockets, requests>>
    /\ shownStatus' = IF renderLag THEN shownStatus ELSE syncStatus'

wsDraftPickStrict ==
    /\ \E s \in sockets, frame \in Frames :
          /\ frame.type = "draft_pick"
          /\ LET pickedPlayerId == ParseInt(frame.player_id)
                 truthy == Truthy(pickedPlayerId)
                 known == Find(players, pickedPlayerId) # 0
             IN  IF MessageHeard(s)
                 THEN /\ players' = IF truthy THEN ApplyPickEvent(players, pickedPlayerId)
                                     ELSE players
                      /\ lastSyncTime' = IF truthy THEN "time" ELSE lastSyncTime
                      /\ syncStatus' = IF known THEN syncStatus ELSE "error"
                      /\ syncError' = IF known THEN syncError ELSE "Unknown player."
                      /\ Record("pickEvent", pickedPlayerId, 0, "", {}, <<>>)
                 ELSE /\ UNCHANGED <<players, lastSyncTime, syncStatus, syncError>>
                      /\ Record("pickIgnored", pickedPlayerId, 0, "", {}, <<>>)
    /\ UNCHANGED <<setupVars, simVars, savedVars, viewVars, catalogVars, dragVars, draftId, ws, sockets, requests>>
    /\ shownStatus' = IF renderLag THEN shownStatus ELSE syncStatus'

\* onmessage of an open socket, frame "draft_pick": the handler returns at
\* its first line when the frame is not heard
wsDraftPick ==
    /\ \E s \in sockets, frame \in Frames :
          /\ frame.type = "draft_pick"
          /\ LET pickedPlayerId == ParseInt(frame.player_id)
                 truthy == Truthy(pickedPlayerId)
             IN  IF MessageHeard(s)
                 THEN /\ players' = IF truthy THEN ApplyPickEvent(players, pickedPlayerId)
                                     ELSE players
                      /\ lastSyncTime' = IF truthy THEN "time" ELSE lastSyncTime
                      /\ Record("pickEvent", pickedPlayerId, Stale(s), "", {}, <<>>)
                 ELSE /\ UNCHANGED <<players, lastSyncTime>>
                      /\ Record("pickIgnored", pickedPlayerId, Stale(s), "", {}, <<>>)
    /\ UNCHANGED <<setupVars, simVars, savedVars, viewVars, catalogVars, dragVars, draftId, syncStatus, syncError,
                   ws, sockets, requests>>
    /\ shownStatus' = IF renderLag THEN shownStatus ELSE syncStatus'

\* onclose: the socket closed from the far side
wsClose ==
    /\ \E s \in sockets :
          /\ sockets' = sockets \ {s}
          /\ IF variant = "full" /\ ws = Some(s) /\ syncStatus # "idle"
             THEN /\ syncError' = IF syncStatus = "syncing"
                                  THEN "Connection failed. Please check the draft URL and your network."
                                  ELSE "Live connection lost (Code). Please reconnect."
                  /\ syncStatus' = "error"
             ELSE UNCHANGED <<syncError, syncStatus>>
          /\ Record("socketClosed", 0, Stale(s), "", {}, <<>>)
    /\ UNCHANGED <<setupVars, simVars, savedVars, viewVars, rosterVars, catalogVars, dragVars, draftId, lastSyncTime,
                   ws, requests>>
    /\ shownStatus' = IF renderLag THEN shownStatus ELSE syncStatus'

\* onerror (only the partitioned revision installs it)
wsError ==
    /\ variant = "partitioned"
    /\ sockets # {}
    /\ syncError' = "WebSocket connection error. Please try reconnecting."
    /\ syncStatus' = "error"
    /\ UNCHANGED <<setupVars, simVars, savedVars, viewVars, rosterVars, catalogVars, dragVars, draftId, lastSyncTime,
                   ws, sockets, requests>>
    /\ Unrecorded
    /\ shownStatus' = IF renderLag THEN shownStatus ELSE syncStatus'

\* React renders the status a callback set
render ==
    /\ shownStatus # syncStatus
    /\ shownStatus' = syncStatus
    /\ UNCHANGED <<setupVars, simVars, savedVars, viewVars, rosterVars, catalogVars, dragVars, draftId,
                   syncStatus, lastSyncTime, syncError, ws, sockets, requests>>
    /\ Unrecorded

\* handleRemoveSync (the confirm dialog of the full revision answered yes)
handleRemoveSync ==
    /\ RemoveShown
    /\ sockets' = IF ws = Null THEN sockets ELSE sockets \ {ws[1]}
    /\ ws' = Null
    /\ draftId' = Null
    /\ lastSyncTime' = NullStr
    /\ syncError' = NullStr
    /\ syncStatus' = "idle"
    /\ players' = ResetDrafted(players)
    /\ Record("removeSync", 0, 0, "", {}, <<>>)
    /\ UNCHANGED <<setupVars, simVars, savedVars, viewVars, catalogVars, dragVars, requests>>
    /\ shownStatus' = syncStatus'

(***************************************************************************)
(* The draft simulation (src/unnamed/part_000): no catalog fetch and no     *)
(* sync; an interval timer drafts the best-ranked undrafted player.         *)
(***************************************************************************)
MaxTimers == 2

\* the players the simulation starts from and is reset to
PLAYERS_DATA == <<ToPlayer(R2, 1), ToPlayer(R1, 2), ToPlayer(R3, 3)>>

\* an effect whose cleanup clears nothing
RunEffectNoCleanup(e, now) ==
    IF e.ran = now THEN e
    ELSE IF now
         THEN LET draftInterval ==
                      CHOOSE n \in 1..(Cardinality(e.timers) + 1) : n \notin e.timers
              IN  [timers |-> e.timers \cup {draftInterval},
                   draftInterval |-> Some(draftInterval), ran |-> TRUE]
         ELSE [timers |-> e.timers, draftInterval |-> Null, ran |-> FALSE]

\* useEffect(..., [isDrafting]) when React runs it for the value now of
\* isDrafting: nothing when the dependency is the one it last ran for;
\* otherwise the cleanup of the last run (clearInterval of its timer, if it
\* set one), then the body (setInterval when drafting)
RunEffect(e, now) ==
    IF e.ran = now THEN e
    ELSE LET cleaned == IF e.draftInterval = Null THEN e.timers
                        ELSE e.timers \ {e.draftInterval[1]}
         IN  IF now
             THEN LET draftInterval ==
                          CHOOSE n \in 1..(Cardinality(cleaned) + 1) : n \notin cleaned
                  IN  [timers |-> cleaned \cup {draftInterval},
                       draftInterval |-> Some(draftInterval), ran |-> TRUE]
             ELSE [timers |-> cleaned, draftInterval |-> Null, ran |-> FALSE]

\* onStart: setIsDrafting(true) in a click handler; the effects of the
\* render before are flushed first, and those of a render made for a click
\* are flushed in the same task
onStart ==
    /\ variant = "simulation"
    /\ mounted
    /\ Cardinality(effect.timers) < MaxTimers
    /\ isDrafting' = TRUE
    /\ effect' = RunEffect(RunEffect(effect, isDrafting), TRUE)
    /\ UNCHANGED <<setupVars, mounted, savedVars, viewVars, rosterVars, catalogVars,
                   dragVars, syncVars>>
    /\ Record("start", 0, 0, "", {}, <<>>)

\* onPause: setIsDrafting(false) in a click handler
onPause ==
    /\ variant = "simulation"
    /\ mounted
    /\ isDrafting' = FALSE
    /\ effect' = RunEffect(RunEffect(effect, isDrafting), FALSE)
    /\ UNCHANGED <<setupVars, mounted, savedVars, viewVars, rosterVars, catalogVars,
                   dragVars, syncVars>>
    /\ Record("pause", 0, 0, "", {}, <<>>)

handleResetDraft ==
    /\ variant = "simulation"
    /\ mounted
    /\ isDrafting' = FALSE
    /\ players' = PLAYERS_DATA
    /\ searchTerm' = <<>>
    /\ positionFilter' = "ALL"
    /\ effect' = RunEffect(RunEffect(effect, isDrafting), FALSE)
    /\ UNCHANGED <<setupVars, mounted, savedVars, catalogVars, dragVars, syncVars>>
    /\ Record("reset", 0, 0, "", {}, <<>>)

\* a timer callback that never switches drafting off
draftIntervalTickNoStop ==
    /\ variant = "simulation"
    /\ \E timer \in effect.timers :
          LET availablePlayers == SortByRank(SelectSeq(players, NotDrafted))
          IN  /\ players' = IF mounted /\ availablePlayers # <<>>
                            THEN ApplyPickEvent(players, availablePlayers[1].id)
                            ELSE players
              /\ Record("tick", timer, 0, "", {}, <<>>)
    /\ UNCHANGED <<setupVars, simVars, savedVars, viewVars, catalogVars,
                   dragVars, syncVars>>

\* the callback of a live interval timer: the state of a component that is
\* not mounted is not updated; setIsDrafting(false) of a timer callback is
\* rendered, and its effects are flushed, in a later task
draftIntervalTick ==
    /\ variant = "simulation"
    /\ \E timer \in effect.timers :
          LET availablePlayers == SortByRank(SelectSeq(players, NotDrafted))
          IN  /\ players' = IF mounted /\ availablePlayers # <<>>
                            THEN ApplyPickEvent(players, availablePlayers[1].id)
                            ELSE players
              /\ isDrafting' = IF mounted /\ availablePlayers = <<>>
                               THEN FALSE ELSE isDrafting
              /\ Record("tick", timer, 0, "", {}, <<>>)
    /\ UNCHANGED <<setupVars, effect, mounted, savedVars, viewVars, catalogVars,
                   dragVars, syncVars>>

\* React flushes the effects of a render that a timer callback caused
flushEffects ==
    /\ variant = "simulation"
    /\ mounted
    /\ effect.ran # isDrafting
    /\ effect' = RunEffect(effect, isDrafting)
    /\ UNCHANGED <<setupVars, isDrafting, mounted, savedVars, viewVars, rosterVars,
                   catalogVars, dragVars, syncVars>>
    /\ Unrecorded

\* the view is torn down: React runs the cleanup of the effect's last run and
\* not its body (the effect run for "not drafting" after a run for "drafting")
unmount ==
    /\ variant = "simulation"
    /\ mounted
    /\ mounted' = FALSE
    /\ effect' = [RunEffect([effect EXCEPT !.ran = TRUE], FALSE) EXCEPT !.ran = effect.ran]
    /\ UNCHANGED <<setupVars, isDrafting, savedVars, viewVars, rosterVars, catalogVars,
                   dragVars, syncVars>>
    /\ Record("unmount", 0, 0, "", {}, <<>>)

\* the simulation's PlayerRow is draggable while drafting is off
handleDragStartSim ==
    /\ variant = "simulation"
    /\ mounted
    /\ ~isDrafting
    /\ \E playerId \in RowIds : draggedPlayerId' = Some(playerId)
    /\ UNCHANGED <<setupVars, simVars, savedVars, viewVars, rosterVars, catalogVars,
                   dragOverPlayerId, syncVars>>
    /\ Unrecorded

\* dragenter reaches a row for whatever is dragged over it
handleDragEnterSim ==
    /\ variant = "simulation"
    /\ mounted
    /\ \E targetPlayerId \in RowIds :
          /\ draggedPlayerId # Some(targetPlayerId)
          /\ dragOverPlayerId' = Some(targetPlayerId)
    /\ UNCHANGED <<setupVars, simVars, savedVars, viewVars, rosterVars, catalogVars,
                   draggedPlayerId, syncVars>>
    /\ Unrecorded

\* handleDrop's updater, simulation: drafted or not, the dragged player is
\* put where the target stands and the whole roster is ranked by index
DropSim(currentPlayers, draggedId, targetId) ==
    IF Find(currentPlayers, draggedId) = 0 THEN currentPlayers
    ELSE LET draggedPlayer == currentPlayers[Find(currentPlayers, draggedId)]
             Other(p) == p.id # draggedId
             filteredPlayers == SelectSeq(currentPlayers, Other)
             dropIndex == Find(filteredPlayers, targetId) - 1
         IN  ReRank(SpliceInsert(filteredPlayers, dropIndex, draggedPlayer))

handleDropSim ==
    /\ variant = "simulation"
    /\ mounted
    /\ IF \/ draggedPlayerId = Null
          \/ dragOverPlayerId = Null
          \/ draggedPlayerId = dragOverPlayerId
       THEN UNCHANGED <<rosterVars, dragVars>>
       ELSE /\ players' = DropSim(players, draggedPlayerId[1], dragOverPlayerId[1])
            /\ draggedPlayerId' = Null
            /\ dragOverPlayerId' = Null
    /\ UNCHANGED <<setupVars, simVars, savedVars, viewVars, catalogVars, syncVars>>
    /\ Unrecorded

(***************************************************************************)
(* Specification.                                                           *)
(***************************************************************************)
Init ==
    /\ variant \in {"full", "partitioned"}
    /\ players = <<>>
    /\ searchTerm = <<>>
    /\ positionFilter = "ALL"
    /\ savedRankings = <<>>
    /\ isDrafting = FALSE
    /\ effect = [timers |-> {}, draftInterval |-> Null, ran |-> FALSE]
    /\ mounted = TRUE
    /\ isLoading = TRUE
    /\ error = NullStr
    /\ catalogFetches = 1
    /\ draggedPlayerId = Null
    /\ dragOverPlayerId = Null
    /\ draftId = Null
    /\ syncStatus = "idle"
    /\ shownStatus = "idle"
    /\ lastSyncTime = NullStr
    /\ syncError = NullStr
    /\ ws = Null
    /\ sockets = {}
    /\ requests = <<>>
    /\ pre = NoPre
    /\ lastOp = NoOp


\* The board: catalog load and refresh, manual draft toggle, drag and drop,
\* and the feed as far as it reaches the roster (a sync that starts without
\* failure, its pick snapshot, its pick events, and remove-sync).
Next ==
    \/ handleRefreshPlayers
    \/ fetchPlayersOkFull
    \/ fetchPlayersOkPart
    \/ handleToggleDraftStatus
    \/ handleDragStart
    \/ handleDragEnter
    \/ handleDragEnd
    \/ handleDrop
    \/ handleStartSyncFull
    \/ handleStartSyncPart
    \/ draftInfoOk
    \/ initialPicksOk
    \/ startPicksOk
    \/ wsDraftPick
    \/ handleRemoveSync

InitBoard ==
    /\ Init
    /\ source = Catalogs
    /\ startLimit = MaxInFlight
    /\ tagChoices = TagInputs
    /\ renderLag = FALSE
    /\ watch = {"drop", "dropIgnored"}

Spec == InitBoard /\ [][Next]_vars

\* Drag and drop over a roster of four, with manual draft toggles and a sync
\* that is started and removed.
NextDrag ==
    \/ fetchPlayersOkFull
    \/ fetchPlayersOkPart
    \/ handleToggleDraftStatus
    \/ handleDragStart
    \/ handleDragEnter
    \/ handleDragEnd
    \/ handleDrop
    \/ handleStartSyncFull
    \/ handleStartSyncPart
    \/ handleRemoveSync

InitDrag ==
    /\ Init
    /\ source = LongCatalogs
    /\ startLimit = MaxInFlight
    /\ tagChoices = TagInputs
    /\ renderLag = FALSE
    /\ watch = {"drop"}

SpecDrag == InitDrag /\ [][NextDrag]_vars

\* Manual draft toggles over every roster that the feed and remove-sync
\* produce.
NextToggle ==
    \/ fetchPlayersOkFull
    \/ fetchPlayersOkPart
    \/ handleToggleDraftStatus
    \/ handleStartSyncFull
    \/ handleStartSyncPart
    \/ draftInfoOk
    \/ initialPicksOk
    \/ startPicksOk
    \/ wsDraftPick
    \/ handleRemoveSync

InitToggle ==
    /\ Init
    /\ source = Catalogs
    /\ startLimit = MaxInFlight
    /\ tagChoices = TagInputs
    /\ renderLag = FALSE
    /\ watch = {"toggleDrafted"}

SpecToggle == InitToggle /\ [][NextToggle]_vars

\* The feed: the whole sync state machine of both revisions, over a roster
\* that is loaded once and changed by manual draft toggles.
NextFeed ==
    \/ fetchPlayersOkFull
    \/ fetchPlayersOkPart
    \/ handleToggleDraftStatus
    \/ handleStartSyncInvalid
    \/ handleStartSyncFull
    \/ handleStartSyncPart
    \/ draftInfoOk
    \/ startSyncFailFull
    \/ initialPicksOk
    \/ initialPicksNotFound
    \/ startPicksOk
    \/ fetchDraftPicksFail
    \/ handleTogglePauseSync
    \/ handleForceRefresh
    \/ forceRefreshOk
    \/ forceRefreshFailFull
    \/ wsWelcome
    \/ wsDraftPick
    \/ wsClose
    \/ wsError
    \/ handleRemoveSync

InitFeed ==
    /\ Init
    /\ source = Catalogs
    /\ startLimit = MaxInFlight
    /\ tagChoices = TagInputs
    /\ renderLag = FALSE
    /\ watch = {"pickEvent", "pickSnapshot"}

SpecFeed == InitFeed /\ [][NextFeed]_vars

\* The sync state machine of both revisions with its failures, over a
\* roster that is loaded once.
NextSync ==
    \/ fetchPlayersOkFull
    \/ fetchPlayersOkPart
    \/ handleStartSyncInvalid
    \/ handleStartSyncFull
    \/ handleStartSyncPart
    \/ draftInfoOk
    \/ startSyncFailFull
    \/ initialPicksOk
    \/ initialPicksNotFound
    \/ startPicksOk
    \/ fetchDraftPicksFail
    \/ handleTogglePauseSync
    \/ handleForceRefresh
    \/ forceRefreshOk
    \/ forceRefreshFailFull
    \/ wsWelcome
    \/ wsDraftPick
    \/ wsClose
    \/ wsError
    \/ handleRemoveSync

InitSync ==
    /\ Init
    /\ source = ShortCatalogs
    /\ startLimit = MaxInFlight
    /\ tagChoices = TagInputs
    /\ renderLag = FALSE
    /\ watch = {"startInvalid", "pickEvent", "pickIgnored", "pickSnapshot", "picksFailed",
                "draftFailed", "removeSync"}

SpecSync == InitSync /\ [][NextSync]_vars

\* A sync that is paused and resumed while picks arrive and the user toggles.
NextResume ==
    \/ fetchPlayersOkFull
    \/ fetchPlayersOkPart
    \/ handleToggleDraftStatus
    \/ handleStartSyncFull
    \/ handleStartSyncPart
    \/ draftInfoOk
    \/ initialPicksOk
    \/ initialPicksNotFound
    \/ startPicksOk
    \/ handleTogglePauseSync
    \/ handleForceRefresh
    \/ forceRefreshOk
    \/ wsWelcome
    \/ wsDraftPick
    \/ handleRemoveSync

InitResume ==
    /\ Init
    /\ source = ShortCatalogs
    /\ startLimit = MaxInFlight
    /\ tagChoices = TagInputs
    /\ renderLag = FALSE
    /\ watch = {"pickEvent", "pickIgnored", "pickSnapshot", "toggleDrafted", "togglePause"}

SpecResume == InitResume /\ [][NextResume]_vars

\* Start requests that overlap: a start is requested again, after a
\* remove-sync, while the responses of an earlier one are still awaited.
NextOverlap ==
    \/ fetchPlayersOkFull
    \/ fetchPlayersOkPart
    \/ handleStartSyncFull
    \/ handleStartSyncPart
    \/ draftInfoOk
    \/ initialPicksOk
    \/ initialPicksNotFound
    \/ startPicksOk
    \/ wsWelcome
    \/ wsDraftPick
    \/ wsClose
    \/ handleRemoveSync

InitOverlap ==
    /\ Init
    /\ source = ShortCatalogs
    /\ startLimit = MaxStarts
    /\ tagChoices = TagInputs
    /\ renderLag = FALSE
    /\ watch = {"pickEvent", "pickIgnored", "welcome", "welcomeIgnored", "socketClosed"}

SpecOverlap == InitOverlap /\ [][NextOverlap]_vars

\* The catalog: its load, its refresh and its failure in both revisions, over
\* catalogs that normalization has to order and to key, with the user's tags
\* and draft toggles in between.
NextCatalog ==
    \/ handleRefreshPlayers
    \/ fetchPlayersOkFull
    \/ fetchPlayersOkPart
    \/ fetchPlayersFail
    \/ handleTogglePlayerTag
    \/ handleToggleDraftStatus

InitCatalog ==
    /\ Init
    /\ source = OddCatalogs
    /\ startLimit = MaxInFlight
    /\ tagChoices = TagInputs
    /\ renderLag = FALSE
    /\ watch = {"replaceAll", "catalogFailed", "mergeCatalog"}

SpecCatalog == InitCatalog /\ [][NextCatalog]_vars

\* Tags: the user's tag toggles in both revisions, over rosters in which a
\* player carries the tag normalization gives and two players share an id.
NextTags ==
    \/ fetchPlayersOkFull
    \/ fetchPlayersOkPart
    \/ handleTogglePlayerTag
    \/ handleToggleDraftStatus

InitTags ==
    /\ Init
    /\ source = OddCatalogs
    /\ startLimit = MaxInFlight
    /\ tagChoices = BothTagInputs
    /\ renderLag = FALSE
    /\ watch = {"toggleTag"}

SpecTags == InitTags /\ [][NextTags]_vars

\* The view: search term and position filter over rosters that are loaded
\* and in which players are drafted by hand.
NextView ==
    \/ fetchPlayersOkFull
    \/ fetchPlayersOkPart
    \/ handleToggleDraftStatus
    \/ setSearchTerm
    \/ setPositionFilter

InitView ==
    /\ Init
    /\ source = Catalogs
    /\ startLimit = MaxInFlight
    /\ tagChoices = TagInputs
    /\ renderLag = FALSE
    /\ watch = {}

SpecView == InitView /\ [][NextView]_vars

\* The pause button, with clicks that come before the status a callback set is
\* rendered.
NextPause ==
    \/ fetchPlayersOkFull
    \/ fetchPlayersOkPart
    \/ handleStartSyncFull
    \/ handleStartSyncPart
    \/ draftInfoOk
    \/ startSyncFailFull
    \/ initialPicksOk
    \/ startPicksOk
    \/ fetchDraftPicksFail
    \/ handleTogglePauseSync
    \/ wsWelcome
    \/ wsClose
    \/ wsError
    \/ render
    \/ handleRemoveSync

InitPause ==
    /\ Init
    /\ source = ShortCatalogs
    /\ startLimit = MaxInFlight
    /\ tagChoices = TagInputs
    /\ renderLag = TRUE
    /\ watch = {"togglePause"}

SpecPause == InitPause /\ [][NextPause]_vars

\* The draft simulation: drafting is started, paused and reset, the timer
\* ticks, the user tags players, and the view is torn down.
NextSim ==
    \/ onStart
    \/ onPause
    \/ handleResetDraft
    \/ draftIntervalTick
    \/ flushEffects
    \/ unmount
    \/ handleTogglePlayerTag

InitSim ==
    /\ variant = "simulation"
    /\ source = {}
    /\ startLimit = MaxInFlight
    /\ tagChoices = TagInputs
    /\ renderLag = FALSE
    /\ players = PLAYERS_DATA
    /\ searchTerm = <<>>
    /\ positionFilter = "ALL"
    /\ savedRankings = <<>>
    /\ isDrafting = FALSE
    /\ effect = [timers |-> {}, draftInterval |-> Null, ran |-> FALSE]
    /\ mounted = TRUE
    /\ isLoading = FALSE
    /\ error = NullStr
    /\ catalogFetches = 0
    /\ draggedPlayerId = Null
    /\ dragOverPlayerId = Null
    /\ draftId = Null
    /\ syncStatus = "idle"
    /\ shownStatus = "idle"
    /\ lastSyncTime = NullStr
    /\ syncError = NullStr
    /\ ws = Null
    /\ sockets = {}
    /\ requests = <<>>
    /\ watch = {"start", "pause", "reset", "tick", "unmount"}
    /\ pre = NoPre
    /\ lastOp = NoOp

SpecSim == InitSim /\ [][NextSim]_vars

\* A draft that is left to run: drafting is started and neither paused nor
\* reset, the view stays mounted, and the user tags and reorders players
\* meanwhile (a drag that began before the start can be dropped after it).
NextLive ==
    \/ onStart
    \/ draftIntervalTick
    \/ flushEffects
    \/ handleTogglePlayerTag
    \/ handleDragStartSim
    \/ handleDragEnterSim
    \/ handleDragEnd
    \/ handleDropSim

\* a live interval timer keeps firing, and React flushes the effects of a
\* render it has made
SpecLive ==
    /\ InitSim
    /\ [][NextLive]_vars
    /\ WF_vars(draftIntervalTick)
    /\ WF_vars(flushEffects)

\* Saved rankings of the partitioned revision: rosters are loaded from the
\* catalog, changed by drafting by hand, saved under a name, loaded and deleted.
NextSaved ==
    \/ fetchPlayersOkPart
    \/ handleToggleDraftStatus
    \/ handleSaveWithName
    \/ handleLoadFromStorage
    \/ handleDeleteRanking

InitSaved ==
    /\ Init
    /\ variant = "partitioned"
    /\ source = OddCatalogs
    /\ startLimit = MaxInFlight
    /\ tagChoices = TagInputs
    /\ renderLag = FALSE
    /\ watch = {"loadSaved"}

SpecSaved == InitSaved /\ [][NextSaved]_vars

\* The catalog refresh of the partitioned revision, with the user's tags and
\* draft toggles and the feed's picks and remove-sync around it.
NextMerge ==
    \/ handleRefreshPlayers
    \/ fetchPlayersOkPart
    \/ fetchPlayersFail
    \/ handleTogglePlayerTag
    \/ handleToggleDraftStatus
    \/ handleStartSyncPart
    \/ startPicksOk
    \/ wsDraftPick
    \/ handleRemoveSync

InitMerge ==
    /\ Init
    /\ variant = "partitioned"
    /\ source = Catalogs
    /\ startLimit = MaxInFlight
    /\ tagChoices = TagInputs
    /\ renderLag = FALSE
    /\ watch = {"mergeCatalog"}

SpecMerge == InitMerge /\ [][NextMerge]_vars

(***************************************************************************)
(* Properties.                                                              *)
(***************************************************************************)
RanksOf(s) == { s[i].rank : i \in 1..Len(s) }

\* the ranks of s are 1..Len(s), each once
DensePermutation(s) == RanksOf(s) = 1..Len(s)

Undrafted(ps) == SelectSeq(ps, NotDrafted)

\* C1: partitioned revision, in every reachable roster the ranks of the
\* undrafted players are exactly 1..countUndrafted, each once.
C1_UndraftedRanksDense ==
    variant = "partitioned" => DensePermutation(Undrafted(players))

\* C2: full revision, in every reachable roster the ranks of all players,
\* drafted and undrafted together, are exactly 1..countAll, each once.
C2_AllRanksDense ==
    variant = "full" => DensePermutation(players)

\* a committed reorder in the full revision with a drafted player on the roster
C2_Witness ==
    /\ variant = "full"
    /\ lastOp.op = "drop"
    /\ players # pre.players
    /\ \E i \in 1..Len(players) : players[i].isDrafted

\* the player with this id is on the roster ps and undrafted
Eligible(ps, id) == \E i \in 1..Len(ps) : ps[i].id = id /\ ~ps[i].isDrafted

\* the player with this id is drafted on ps, or not on ps at all
DraftedOrAbsent(ps, id) == \A i \in 1..Len(ps) : ps[i].id = id => ps[i].isDrafted

PosOf(s, id) == CHOOSE i \in 1..Len(s) : s[i].id = id

RankIn(ps, id) == ps[PosOf(ps, id)].rank

\* C3: a drop leaves the whole roster as it was whenever, when the drop is
\* committed, the dragged or the target player is drafted or not on the
\* roster, or the two ids are equal.
C3_RejectedDropKeepsRoster ==
    ( /\ lastOp.op \in {"drop", "dropIgnored"}
      /\ \/ lastOp.id = lastOp.id2
         \/ DraftedOrAbsent(pre.players, lastOp.id)
         \/ DraftedOrAbsent(pre.players, lastOp.id2) )
    => players = pre.players

\* a drop whose dragged player, undrafted when the drag started, was drafted
\* by the time of the drop, on a target that is still undrafted
C3_Witness ==
    /\ lastOp.op = "drop"
    /\ \E i \in 1..Len(pre.players) :
          pre.players[i].id = lastOp.id /\ pre.players[i].isDrafted
    /\ Eligible(pre.players, lastOp.id2)
    /\ players = pre.players

\* the last step was a drop of an undrafted player onto another undrafted player
Committed ==
    /\ lastOp.op = "drop"
    /\ Eligible(pre.players, lastOp.id)
    /\ Eligible(pre.players, lastOp.id2)

\* the sequence handleDrop reorders and ranks: the whole roster in the full
\* revision, the undrafted players in array order in the partitioned one
Reordered(ps) == IF variant = "full" THEN ps ELSE Undrafted(ps)

\* C4 as stated: a committed reorder gives d the rank t held before it, and
\* t and every undrafted player ranked after t a rank one greater.
C4_TargetRankTaken ==
    Committed =>
        /\ RankIn(players, lastOp.id) = RankIn(pre.players, lastOp.id2)
        /\ \A i \in 1..Len(pre.players) :
              ( /\ ~pre.players[i].isDrafted
                /\ pre.players[i].id # lastOp.id
                /\ pre.players[i].rank >= RankIn(pre.players, lastOp.id2) )
              => RankIn(players, pre.players[i].id) = pre.players[i].rank + 1

\* where the element at position i of the reordered sequence ends up when the
\* element at pd is taken out and put back in front of the element at pt
NewPos(i, pd, pt) ==
    IF i = pd THEN (IF pd > pt THEN pt ELSE pt - 1)
    ELSE IF pd > pt /\ i >= pt /\ i < pd THEN i + 1
    ELSE IF pd < pt /\ i > pd /\ i < pt THEN i - 1
    ELSE i

\* C4 amended: a committed reorder takes d out of the sequence it reorders
\* and puts it back immediately in front of t, and every player of that
\* sequence is then ranked by its new position: d from behind t lands on t's
\* position and t and the players up to d's old position move down by one;
\* d from in front of t lands just before t, t stays, and the players between
\* move up by one.
C4_ReinsertedBeforeTarget ==
    Committed =>
        LET L0 == Reordered(pre.players)
            L1 == Reordered(players)
            pd == PosOf(L0, lastOp.id)
            pt == PosOf(L0, lastOp.id2)
        IN  /\ Len(L1) = Len(L0)
            /\ \A i \in 1..Len(L0) :
                  /\ L1[NewPos(i, pd, pt)].id = L0[i].id
                  /\ L1[NewPos(i, pd, pt)].rank = NewPos(i, pd, pt)

\* a committed drag from in front of the target, past at least one player
C4_Witness ==
    /\ Committed
    /\ PosOf(Reordered(pre.players), lastOp.id) + 1
          < PosOf(Reordered(pre.players), lastOp.id2)
    /\ players # pre.players

\* a committed drop of a player ranked below its target
Upward == Committed /\ RankIn(pre.players, lastOp.id) > RankIn(pre.players, lastOp.id2)

\* the undrafted players of ps other than the one with this id
Others(ps, id) ==
    { i \in 1..Len(ps) : ~ps[i].isDrafted /\ ps[i].id # id }

\* C5: an upward drag puts d at t's position (immediately above t, below
\* every player that was ranked above t), the other undrafted players keep
\* their relative order, the ranks are re-enumerated from 1, and no player's
\* id, name, team, position, tags or isDrafted changes.
C5_UpwardDrag ==
    Upward =>
        LET d == lastOp.id
            t == lastOp.id2
            P0 == pre.players
        IN  /\ RankIn(players, t) = RankIn(players, d) + 1
            /\ \A i \in Others(P0, d) :
                  P0[i].rank < RankIn(P0, t) => RankIn(players, P0[i].id) < RankIn(players, d)
            /\ \A i, j \in Others(P0, d) :
                  P0[i].rank < P0[j].rank
                     => RankIn(players, P0[i].id) < RankIn(players, P0[j].id)
            /\ \A i \in 1..Len(Reordered(players)) : Reordered(players)[i].rank = i
            /\ Len(players) = Len(P0)
            /\ \A i \in 1..Len(P0) : \E j \in 1..Len(players) :
                  players[j] = [P0[i] EXCEPT !.rank = players[j].rank]

(***************************************************************************)
(* Properties of the draft feed.                                            *)
(***************************************************************************)
FeedOp == lastOp.op \in {"pickEvent", "pickSnapshot"}

\* the last feed operation applied once more to the roster it left
AppliedAgain ==
    IF lastOp.op = "pickSnapshot" THEN ApplyPickSnapshot(players, lastOp.ids)
    ELSE IF Truthy(lastOp.id) THEN ApplyPickEvent(players, lastOp.id)
    ELSE players

\* C6: the same pick event or pick snapshot applied again leaves the roster,
\* every field of every player and their order, as the first application
\* left it.
C6_PickIdempotent ==
    FeedOp =>
        /\ lastOp.again => players = pre.players
        /\ AppliedAgain = players

\* a pick event for a player on the roster delivered twice in a row
C6_Witness ==
    /\ lastOp.op = "pickEvent"
    /\ lastOp.again
    /\ \E i \in 1..Len(players) : players[i].id = lastOp.id /\ players[i].isDrafted

\* C7: a pick event or a pick snapshot (initial or force-refresh) leaves
\* every player that was drafted before it drafted.
C7_FeedNeverUndrafts ==
    FeedOp =>
        /\ Len(players) = Len(pre.players)
        /\ \A i \in 1..Len(players) :
              /\ players[i].id = pre.players[i].id
              /\ pre.players[i].isDrafted => players[i].isDrafted

\* a snapshot that does not name a player drafted before it
C7_Witness ==
    /\ lastOp.op = "pickSnapshot"
    /\ \E i \in 1..Len(players) :
          /\ pre.players[i].isDrafted
          /\ pre.players[i].id \notin lastOp.ids
          /\ players[i].isDrafted
    /\ \E i \in 1..Len(players) : ~pre.players[i].isDrafted /\ players[i].isDrafted

\* the last feed operation named only ids that no player of the roster has
NamesOnlyUnknownIds ==
    \/ /\ lastOp.op = "pickEvent"
       /\ \A i \in 1..Len(pre.players) : pre.players[i].id # lastOp.id
    \/ /\ lastOp.op = "pickSnapshot"
       /\ \A i \in 1..Len(pre.players) : pre.players[i].id \notin lastOp.ids

\* C8: a pick event or pick snapshot naming only ids that are not on the
\* roster leaves the roster as it was and does not put the sync status into
\* "error".
C8_UnknownIdsIgnored ==
    NamesOnlyUnknownIds =>
        /\ players = pre.players
        /\ syncStatus = "error" => pre.syncStatus = "error"

\* a snapshot of two picks, neither on the loaded roster
C8_Witness ==
    /\ lastOp.op = "pickSnapshot"
    /\ Cardinality(lastOp.ids) = 2
    /\ Len(pre.players) > 0
    /\ NamesOnlyUnknownIds

(***************************************************************************)
(* Properties of the catalog refresh.                                       *)
(***************************************************************************)
\* ids of the players the catalog data normalizes to
CatalogIds(data) ==
    { ParseInt(data[k].player_id) : k \in { n \in 1..Len(data) : KeepRecord(data[n]) } }

Merged == lastOp.op = "mergeCatalog"

\* C9: a catalog merge leaves the tags and isDrafted of every player whose
\* id is in the new catalog as they were.
C9_MergeKeepsTagsAndDrafted ==
    Merged =>
        \A i \in 1..Len(pre.players) :
            pre.players[i].id \in CatalogIds(lastOp.data)
            => \E j \in 1..Len(players) :
                  /\ players[j].id = pre.players[i].id
                  /\ players[j].tags = pre.players[i].tags
                  /\ players[j].isDrafted = pre.players[i].isDrafted

\* a merge that renames a drafted player carrying a tag the user set
C9_Witness ==
    /\ Merged
    /\ \E i \in 1..Len(pre.players), j \in 1..Len(players) :
          /\ players[j].id = pre.players[i].id
          /\ players[j].name # pre.players[i].name
          /\ players[j].team # pre.players[i].team
          /\ pre.players[i].isDrafted
          /\ Includes(pre.players[i].tags, "Bust")

\* both players are undrafted before the merge and on the roster after it
SurvivingPair(i, j) ==
    /\ ~pre.players[i].isDrafted
    /\ ~pre.players[j].isDrafted
    /\ \E k \in 1..Len(players) : players[k].id = pre.players[i].id
    /\ \E k \in 1..Len(players) : players[k].id = pre.players[j].id

\* C10: of two undrafted players that are on the roster before and after a
\* catalog merge, the one ranked first before it is ranked first after it.
C10_MergeKeepsOrder ==
    Merged =>
        \A i, j \in 1..Len(pre.players) :
            (SurvivingPair(i, j) /\ pre.players[i].rank < pre.players[j].rank)
            => RankIn(players, pre.players[i].id) < RankIn(players, pre.players[j].id)

\* a merge that drops one player and brings a new one, with two survivors
\* that the new catalog ranks the other way round
C10_Witness ==
    /\ Merged
    /\ \E k \in 1..Len(pre.players) : pre.players[k].id \notin CatalogIds(lastOp.data)
    /\ \E k \in 1..Len(players) : ~HasId(pre.players, players[k].id)
    /\ \E i, j \in 1..Len(pre.players) :
          /\ SurvivingPair(i, j)
          /\ pre.players[i].rank < pre.players[j].rank
          /\ \E np \in normalizeSleeperData(lastOp.data) :
                RankIn(np, pre.players[i].id) > RankIn(np, pre.players[j].id)

\* the player at index j of the merged roster was not on the roster before
BrandNew(j) == ~HasId(pre.players, players[j].id)

\* C11: a catalog merge removes the players that the new catalog lacks, ranks
\* every player new to the roster after every retained undrafted player, and
\* keeps the new players among themselves in the catalog's order.
C11_MergeAppendsNewPlayers ==
    Merged =>
        /\ \A k \in 1..Len(players) : players[k].id \in CatalogIds(lastOp.data)
        /\ \A i, j \in 1..Len(players) :
              (~BrandNew(i) /\ ~players[i].isDrafted /\ BrandNew(j))
              => players[i].rank < players[j].rank
        /\ \E np \in normalizeSleeperData(lastOp.data) :
              \A i, j \in 1..Len(players) :
                 ( /\ BrandNew(i) /\ BrandNew(j)
                   /\ RankIn(np, players[i].id) < RankIn(np, players[j].id) )
                 => players[i].rank < players[j].rank

(***************************************************************************)
(* Properties of the manual draft toggle.                                   *)
(***************************************************************************)
\* the last two steps toggled the drafted flag of the same player
ToggledTwice == lastOp.op = "toggleDrafted" /\ lastOp.again

\* C12 as stated: two toggles of the same player in a row restore that
\* player's isDrafted, and any two other players that were ranked one before
\* the other are still ranked that way.
C12_AllOthersKeepOrder ==
    ToggledTwice =>
        LET P0 == pre.before
        IN  /\ Len(players) = Len(P0)
            /\ \A i \in 1..Len(P0) :
                  players[PosOf(players, P0[i].id)].isDrafted = P0[i].isDrafted
            /\ \A i, j \in 1..Len(P0) :
                  ( /\ P0[i].id # lastOp.id
                    /\ P0[j].id # lastOp.id
                    /\ P0[i].rank < P0[j].rank )
                  => RankIn(players, P0[i].id) < RankIn(players, P0[j].id)

\* C12, amended: two toggles of the same player in a row restore every
\* player's isDrafted, and any two other players with the same isDrafted
\* value that were ranked one before the other are still ranked that way.
C12_DoubleToggleRestores ==
    ToggledTwice =>
        LET P0 == pre.before
        IN  /\ Len(players) = Len(P0)
            /\ \A i \in 1..Len(P0) :
                  players[PosOf(players, P0[i].id)].isDrafted = P0[i].isDrafted
            /\ \A i, j \in 1..Len(P0) :
                  ( /\ P0[i].id # lastOp.id
                    /\ P0[j].id # lastOp.id
                    /\ P0[i].isDrafted = P0[j].isDrafted
                    /\ P0[i].rank < P0[j].rank )
                  => RankIn(players, P0[i].id) < RankIn(players, P0[j].id)

\* an undrafted player between two undrafted others drafted and undrafted again
C12_Witness ==
    /\ ToggledTwice
    /\ variant = "partitioned"
    /\ \E i, j, k \in 1..Len(pre.before) :
          /\ pre.before[k].id = lastOp.id
          /\ ~pre.before[i].isDrafted /\ ~pre.before[j].isDrafted /\ ~pre.before[k].isDrafted
          /\ pre.before[i].rank < pre.before[k].rank
          /\ pre.before[k].rank < pre.before[j].rank
          /\ players # pre.players

(***************************************************************************)
(* Properties of the sync state machine.                                    *)
(***************************************************************************)
\* C13: right after remove-sync every player is undrafted, the status is
\* "idle", draftId, lastSyncTime and syncError are null and ws.current is
\* null.
C13_RemoveSyncClears ==
    lastOp.op = "removeSync" =>
        /\ \A i \in 1..Len(players) : ~players[i].isDrafted
        /\ syncStatus = "idle"
        /\ draftId = Null
        /\ lastSyncTime = NullStr
        /\ syncError = NullStr
        /\ ws = Null

\* remove-sync on a roster with a drafted player
C13_Witness ==
    /\ lastOp.op = "removeSync"
    /\ \E i \in 1..Len(pre.players) : pre.players[i].isDrafted
    /\ pre.syncStatus = "paused"

\* C14: once remove-sync has put the status to "idle", and for as long as no
\* start is requested, ws.current stays null, no socket is open, and no pick
\* event or pick snapshot is applied to the roster.
C14_RemoveSyncIsFinal ==
    /\ syncStatus = "idle" => (ws = Null /\ sockets = {})
    /\ FeedOp => pre.syncStatus # "idle"

\* C15: at most one open socket can apply events, and every open socket is
\* the one held in ws.current: a socket opened by an earlier start request is
\* closed by the time a later one opens its own.
C15_SingleTransport ==
    /\ Cardinality({ s \in sockets : MessageHeard(s) }) <= 1
    /\ \A s \in sockets : ws = Some(s)

\* C16: a start request with a URL that yields no draft id puts the status to
\* "error" with an error message in that same step, sends no request, opens
\* no socket and leaves ws.current and the roster as they were.
C16_InvalidUrlFailsAtOnce ==
    [][ lastOp'.op = "startInvalid" =>
            /\ syncStatus' = "error"
            /\ syncError' # NullStr
            /\ requests' = requests
            /\ sockets' = sockets
            /\ ws' = ws
            /\ players' = players ]_vars

\* an invalid URL entered in the idle state over a loaded roster
C16_Witness ==
    /\ lastOp.op = "startInvalid"
    /\ pre.syncStatus = "idle"
    /\ Len(players) > 0
    /\ syncStatus = "error"

\* the socket held in ws.current closes in this step without the client
\* closing it: ws.current keeps pointing to it
CurrentSocketLost ==
    /\ ws # Null
    /\ ws[1] \in sockets
    /\ ws[1] \notin sockets'
    /\ ws' = ws

\* C17: when the socket held in ws.current closes from the far side while the
\* status is "active" or "paused", the status becomes "error"; a remove-sync
\* does not leave the status "error".
C17_LostTransportIsError ==
    [][ /\ (CurrentSocketLost /\ syncStatus \in {"active", "paused"})
           => syncStatus' = "error"
        /\ lastOp'.op = "removeSync" => syncStatus' # "error" ]_vars

\* C18: a pick event that arrives on a socket while the status is "paused"
\* leaves the roster as it is, and the step that pauses neither closes a
\* socket nor lets go of ws.current.
C18_PausedIgnoresPicks ==
    [][ /\ (syncStatus = "paused" /\ lastOp'.op \in {"pickEvent", "pickIgnored"})
           => players' = players
        /\ (syncStatus # "paused" /\ syncStatus' = "paused")
           => (ws' = ws /\ sockets' = sockets) ]_vars

\* a pick of an undrafted player of the roster arrived on the open current
\* socket while paused
C18_Witness ==
    /\ lastOp.op = "pickIgnored"
    /\ pre.syncStatus = "paused"
    /\ syncStatus = "paused"
    /\ ws # Null
    /\ ws[1] \in sockets
    /\ \E i \in 1..Len(players) : players[i].id = lastOp.id /\ ~players[i].isDrafted

\* the drafted flags of the roster, player by player
DraftedFlags(ps) == [i \in 1..Len(ps) |-> <<ps[i].id, ps[i].isDrafted>>]

\* C19: a step that moves the status to "error" leaves a non-null syncError
\* and every player's isDrafted as it was, and no pick event or pick snapshot
\* that arrives while the status is "error" changes the roster.
C19_ErrorKeepsRoster ==
    [][ /\ (syncStatus # "error" /\ syncStatus' = "error")
           => (syncError' # NullStr /\ DraftedFlags(players') = DraftedFlags(players))
        /\ (syncStatus = "error" /\ lastOp'.op \in {"pickEvent", "pickSnapshot"})
           => players' = players ]_vars

\* C20: a pick-snapshot request answered 404 leaves the roster as it was
\* and does not put the status into "error", and a start request goes on to
\* open its socket and hold it in ws.current.
C20_NotFoundIsEmpty ==
    (lastOp.op = "picksFailed" /\ lastOp.id = NotFound) =>
        /\ players = pre.players
        /\ syncStatus = "error" => pre.syncStatus = "error"
        /\ lastOp.tag = "start" => (ws # Null /\ ws[1] \in sockets)

(***************************************************************************)
(* Properties of the catalog fetch and of normalization.                    *)
(***************************************************************************)
\* C21: a failed catalog fetch leaves the roster exactly as it stands when
\* the failure arrives, sets the catalog error and ends the loading state.
C21_FailedFetchKeepsRoster ==
    lastOp.op = "catalogFailed" =>
        /\ players = pre.players
        /\ error # NullStr
        /\ ~isLoading

\* a refresh fails over a roster in which the user has tagged and drafted
C21_Witness ==
    /\ lastOp.op = "catalogFailed"
    /\ \E i \in 1..Len(players) : players[i].isDrafted
    /\ \E i \in 1..Len(players) : Includes(players[i].tags, "Bust")

\* C22: no two players of the roster have the same id (every catalog the
\* roster is built from has pairwise distinct player_id strings).
C22_IdsUnique ==
    \A i, j \in 1..Len(players) : i # j => players[i].id # players[j].id

\* the kept records of the catalog data with this parsed player_id, as
\* positions in the data
RecsOf(data, id) ==
    { k \in 1..Len(data) : KeepRecord(data[k]) /\ ParseInt(data[k].player_id) = id }

\* the roster was built by normalization in the last step, from a catalog in
\* which the parsed ids tell the kept records apart
Normalized ==
    /\ lastOp.op = "replaceAll"
    /\ \A i \in 1..Len(players) : Cardinality(RecsOf(lastOp.data, players[i].id)) = 1

\* the record of the catalog data that player i of the roster was made from
RecOf(i) == CHOOSE k \in RecsOf(lastOp.data, players[i].id) : TRUE

\* C23: the roster normalization builds holds exactly the kept records, the
\* scored ones by search_rank ascending, every record without a score after
\* every scored one, the records without a score in the order of the catalog
\* data, and player i has rank i.
C23_NormalizationOrder ==
    Normalized =>
        /\ Len(players) = Cardinality({ k \in 1..Len(lastOp.data) : KeepRecord(lastOp.data[k]) })
        /\ \A i \in 1..Len(players) : players[i].rank = i
        /\ \A i, j \in 1..Len(players) :
              i < j =>
                LET a == lastOp.data[RecOf(i)]
                    b == lastOp.data[RecOf(j)]
                IN  /\ HasScore(b) => HasScore(a)
                    /\ (HasScore(a) /\ HasScore(b)) => a.search_rank[1] <= b.search_rank[1]
                    /\ (NoScore(a) /\ NoScore(b)) => RecOf(i) < RecOf(j)

(***************************************************************************)
(* Properties of the tag toggle.                                            *)
(***************************************************************************)
\* the tags of a player as a set
TagSet(p) == { p.tags[k] : k \in 1..Len(p.tags) }

\* the last two steps toggled the same tag of the same player
TagToggledTwice == lastOp.op = "toggleTag" /\ lastOp.again

\* C24: two toggles of the same tag of the same player in a row leave every
\* player with the tag set and the other fields it had, and a player with
\* another id with its tags in the order they had.
C24_DoubleTagToggleRestores ==
    TagToggledTwice =>
        LET P0 == pre.before
        IN  /\ Len(players) = Len(P0)
            /\ \A i \in 1..Len(P0) :
                  /\ TagSet(players[i]) = TagSet(P0[i])
                  /\ [players[i] EXCEPT !.tags = <<>>] = [P0[i] EXCEPT !.tags = <<>>]
                  /\ P0[i].id # lastOp.id => players[i] = P0[i]

\* a tag that is not the last of the player's tags taken off and put back
C24_Witness ==
    /\ TagToggledTwice
    /\ \E i \in 1..Len(players) :
          /\ players[i].id = lastOp.id
          /\ Len(pre.before[i].tags) = 2
          /\ pre.before[i].tags[1] = lastOp.tag
          /\ players[i].tags # pre.before[i].tags

(***************************************************************************)
(* Properties of the display projection.                                    *)
(***************************************************************************)
\* how often the record r occurs in the sequence s
Count(s, r) == Cardinality({ i \in 1..Len(s) : s[i] = r })

\* the roster players the search term and the position filter let through
Shown(p) == MatchesSearch(p, searchTerm) /\ MatchesPosition(p, positionFilter)

\* the display list holds every roster player that matches, once, and no other
ShowsExactlyTheMatches ==
    /\ \A i \in 1..Len(players) :
          Count(displayPlayers, players[i]) =
              (IF Shown(players[i]) THEN Count(players, players[i]) ELSE 0)
    /\ \A i \in 1..Len(displayPlayers) : Count(players, displayPlayers[i]) > 0

\* C25 as stated: the display list holds exactly the matching players, each
\* once, in strictly ascending rank order.
C25_DisplayStrictlyByRank ==
    /\ ShowsExactlyTheMatches
    /\ \A i, j \in 1..Len(displayPlayers) :
          i < j => displayPlayers[i].rank < displayPlayers[j].rank

\* C25, amended: the display list holds exactly the matching players, each
\* once; in the partitioned revision every undrafted player stands before
\* every drafted one; players that the revision does not separate stand in
\* ascending rank order, and in roster order where their ranks are equal.
C25_DisplayOrder ==
    /\ ShowsExactlyTheMatches
    /\ \A i, j \in 1..Len(displayPlayers) :
          i < j =>
            LET a == displayPlayers[i]
                b == displayPlayers[j]
            IN  /\ variant = "partitioned" => ~(a.isDrafted /\ ~b.isDrafted)
                /\ (variant = "full" \/ a.isDrafted = b.isDrafted) =>
                      /\ a.rank <= b.rank
                      /\ a.rank = b.rank => PosOf(players, a.id) < PosOf(players, b.id)

\* a search that differs in case from the text it finds in a name and in a
\* team, hides a player, and shows an undrafted player before a drafted one
\* of the same rank
C25_Witness ==
    /\ searchTerm = <<"A">>
    /\ Len(displayPlayers) = 2
    /\ Len(players) = 3
    /\ ~displayPlayers[1].isDrafted
    /\ displayPlayers[2].isDrafted
    /\ displayPlayers[1].rank = displayPlayers[2].rank

(***************************************************************************)
(* Catalog refresh against a tag toggle.                                    *)
(***************************************************************************)
\* ids of the rows of a roster
IdsOf(ps) == { ps[i].id : i \in 1..Len(ps) }

\* C26: a catalog merge and a tag toggle commute: for the merge just made,
\* and every player and tag the user could have toggled before it, toggling
\* first and merging then gives the roster that toggling now gives.
C26_MergeAndTagToggleCommute ==
    Merged =>
        \E np \in normalizeSleeperData(lastOp.data) :
            /\ players = MergeCatalog(pre.players, np)
            /\ \A id \in IdsOf(pre.players), tag \in BothTagInputs :
                  MergeCatalog(TogglePlayerTag(pre.players, id, tag), np)
                      = TogglePlayerTag(players, id, tag)

\* a merge that keeps a player the user tagged, drops a player and brings a
\* new one
C26_Witness ==
    /\ Merged
    /\ \E i \in 1..Len(pre.players) : ~HasId(players, pre.players[i].id)
    /\ \E j \in 1..Len(players) : ~HasId(pre.players, players[j].id)
    /\ \E i \in 1..Len(pre.players), j \in 1..Len(players) :
          /\ pre.players[i].id = players[j].id
          /\ Includes(players[j].tags, "Bust")

\* a saved ranking was loaded in the last step
Loaded == lastOp.op = "loadSaved"

\* I1 and I2 of a player list: ids pairwise distinct, and the ranks of the
\* undrafted players exactly 1..countUndrafted
UniqueIds(ps) == \A i, j \in 1..Len(ps) : i # j => ps[i].id # ps[j].id
ValidRoster(ps) == UniqueIds(ps) /\ DensePermutation(Undrafted(ps))

\* C27: loading a saved ranking replaces the roster by the saved list only if
\* the list has unique ids and dense undrafted ranks; otherwise the roster
\* stays as it was.
C27_LoadValidates ==
    Loaded =>
        IF ValidRoster(lastOp.data)
        THEN players = lastOp.data
        ELSE players = pre.players

\* the events of a socket: its frames and its close
SocketEvents == {"pickEvent", "pickIgnored", "welcome", "welcomeIgnored", "socketClosed"}

\* C28: a message or a close event of a socket that is no longer the one held
\* in ws.current (a later start request put its own socket there, or
\* remove-sync cleared it) changes neither the roster nor the sync status nor
\* the sync error.
C28_StaleEventsChangeNothing ==
    [][ (lastOp'.op \in SocketEvents /\ lastOp'.id2 = 1) =>
            /\ players' = players
            /\ syncStatus' = syncStatus
            /\ syncError' = syncError ]_vars

\* the replaced socket delivered the pick of an undrafted player of the roster
\* while the sync was not paused
C28_Witness ==
    /\ lastOp.op = "pickIgnored"
    /\ lastOp.id2 = 1
    /\ syncStatus # "paused"
    /\ Eligible(players, lastOp.id)

\* the replaced socket closed while the status was not idle
C28_WitnessClose ==
    /\ lastOp.op = "socketClosed"
    /\ lastOp.id2 = 1
    /\ syncStatus \in {"syncing", "active"}

\* the drafted players of a roster, each with its rank
DraftedRanks(ps) == { <<ps[i].id, ps[i].rank>> : i \in { k \in 1..Len(ps) : ps[k].isDrafted } }

\* the rank a drafted player of rank r has after the whole roster is ranked
\* anew with d moved in front of t: one more when it stood between t and d,
\* one less when it stood between d and t, r otherwise
ShiftedRank(r, d, t) ==
    IF t < r /\ r < d THEN r + 1
    ELSE IF d < r /\ r < t THEN r - 1
    ELSE r

\* C29 as stated: a committed reorder leaves the rank of every drafted player
\* as it was.
C29_DraftedRanksKept ==
    Committed => DraftedRanks(players) = DraftedRanks(pre.players)

\* C29, amended: a committed reorder of the partitioned revision ranks the
\* undrafted players only and leaves every drafted player's rank as it was;
\* in the full revision it ranks the whole roster, and a drafted player keeps
\* its rank unless it stood between the dragged player and the target, where
\* its rank moves by one.
C29_DraftedRanksPerRevision ==
    Committed =>
        IF variant = "partitioned"
        THEN /\ DraftedRanks(players) = DraftedRanks(pre.players)
             /\ DensePermutation(Undrafted(players))
        ELSE DraftedRanks(players) =
                 { <<pre.players[i].id,
                     ShiftedRank(pre.players[i].rank, RankIn(pre.players, lastOp.id),
                                 RankIn(pre.players, lastOp.id2))>> :
                   i \in { k \in 1..Len(pre.players) : pre.players[k].isDrafted } }

\* a committed reorder of the partitioned revision, over a roster on which a
\* drafted player holds a rank that an undrafted player holds too
C29_Witness ==
    /\ Committed
    /\ variant = "partitioned"
    /\ players # pre.players
    /\ \E i, j \in 1..Len(players) :
          /\ players[i].isDrafted /\ ~players[j].isDrafted
          /\ players[i].rank = players[j].rank

\* a committed reorder of the full revision across a drafted player
C29_WitnessFull ==
    /\ Committed
    /\ variant = "full"
    /\ DraftedRanks(players) # DraftedRanks(pre.players)

\* C30: simulation variant, at most one draft timer is live at a time, and a
\* timer tick that comes while drafting is off (paused, reset, stopped, not
\* yet started) or after the view is torn down changes no isDrafted flag.
C30_TimerStopped ==
    [][ /\ Cardinality(effect'.timers) <= 1
        /\ (lastOp'.op = "tick" /\ (~isDrafting \/ ~mounted)) =>
               DraftedFlags(players') = DraftedFlags(players) ]_vars

\* drafting was paused after the timer drafted a player and before it
\* drafted them all, and no timer is left
C30_Witness ==
    /\ lastOp.op = "pause"
    /\ ~isDrafting
    /\ effect.timers = {}
    /\ \E i, j \in 1..Len(players) : players[i].isDrafted /\ ~players[j].isDrafted

\* a tick came while drafting was off and the timer still live
C30_WitnessLateTick ==
    /\ lastOp.op = "tick"
    /\ ~isDrafting
    /\ effect.ran

\* C31: a start request whose draft validation or snapshot fetch fails
\* creates no socket and puts the status to "error"; a socket is created only
\* in the step that applies the pick snapshot of its start request to the
\* roster (or, in the full revision, that takes a 404 for "no picks yet"), so
\* every pick event of that socket comes after the snapshot.
C31_ChannelAfterSnapshot ==
    [][ /\ ( \/ lastOp'.op = "draftFailed"
             \/ /\ lastOp'.op = "picksFailed"
                /\ lastOp'.tag = "start"
                /\ ~(variant = "full" /\ lastOp'.id = NotFound) )
           => (sockets' \subseteq sockets /\ syncStatus' = "error")
        /\ ~(sockets' \subseteq sockets)
           => \/ /\ lastOp'.op = "pickSnapshot"
                 /\ players' = ApplyPickSnapshot(players, lastOp'.ids)
              \/ /\ variant = "full"
                 /\ lastOp'.op = "picksFailed" /\ lastOp'.id = NotFound
                 /\ players' = players
        /\ lastOp'.op = "pickEvent" => sockets # {} ]_vars

\* a start request failed on its snapshot fetch: status error, no socket
C31_Witness ==
    /\ lastOp.op = "picksFailed"
    /\ lastOp.tag = "start"
    /\ lastOp.id = ServerError
    /\ syncStatus = "error"
    /\ sockets = {}

\* C32: the pause toggle moves the status from "active" to "paused" and from
\* "paused" to "active", and leaves every other status as it is.
C32_PauseOnlyBetweenActiveAndPaused ==
    [][ lastOp'.op = "togglePause" =>
            syncStatus' = CASE syncStatus = "active" -> "paused"
                            [] syncStatus = "paused" -> "active"
                            [] OTHER -> syncStatus ]_vars

\* C33: when the picks of a force refresh arrive ok and the status is the one
\* the refresh met or set ("active", or "syncing" while it was awaited), the
\* status is "active" once they are applied.
C33_RefreshEndsActive ==
    [][ ( /\ lastOp'.op = "pickSnapshot"
          /\ \E i \in 1..Len(requests) :
                /\ requests[i].kind \in {"refresh", "refreshPicks"}
                /\ requests' = RemoveRequest(i)
          /\ syncStatus \in {"active", "syncing"} )
        => syncStatus' = "active" ]_vars

\* every player of the roster ps that the snapshot ids names is drafted
SnapshotMarked(ps, ids) ==
    \A i \in 1..Len(ps) :
        (\E d \in ids : SameValueZero(d, ps[i].id)) => ps[i].isDrafted

\* C34: the players that the pick snapshot of a sync start names are drafted
\* once the snapshot and the initial catalog load are both done: when the
\* snapshot is applied to a roster, and when the catalog is first loaded
\* right after a snapshot was applied to the still empty roster.
C34_SnapshotAndCatalogInAnyOrder ==
    [][ /\ lastOp'.op = "pickSnapshot" => SnapshotMarked(players', lastOp'.ids)
        /\ (lastOp.op = "pickSnapshot" /\ players = <<>> /\ players' # <<>>)
              => SnapshotMarked(players', lastOp.ids) ]_vars

\* the display list of the roster ps under the filters in force
DisplayOf(ps) ==
    LET BySearch(p) == MatchesSearch(p, searchTerm)
        ByPosition(p) == MatchesPosition(p, positionFilter)
    IN  SortForDisplay(SelectSeq(SelectSeq(ps, BySearch), ByPosition))

\* the order of the pairs of displayed players other than the player moved
OtherPairsKept(before, after, movedId) ==
    \A i, j \in 1..Len(before) :
        (i < j /\ before[i].id # movedId /\ before[j].id # movedId) =>
            \A k, l \in 1..Len(after) :
                (after[k].id = before[i].id /\ after[l].id = before[j].id) => k < l

\* C35: a committed drag-reorder changes the displayed relative order of no
\* pair of players that does not include the dragged player.
C35_OtherPairsKeepDisplayOrder ==
    Committed =>
        OtherPairsKept(DisplayOf(pre.players), DisplayOf(players), lastOp.id)

\* the ids of the players that the step drafts
NewlyDrafted ==
    { players'[i].id : i \in { k \in 1..Len(players') : players'[k].isDrafted } }
    \ { players[i].id : i \in { k \in 1..Len(players) : players[k].isDrafted } }

\* C36: a pick event delivered while the status is "paused" is dropped for
\* good: the event changes no roster, the resume that follows it changes no
\* roster, and whenever a player becomes drafted the step is a pick event
\* that was heard, a pick snapshot or a manual toggle.
C36_PausedPickDroppedForGood ==
    [][ /\ (syncStatus = "paused" /\ lastOp'.op = "pickIgnored") => players' = players
        /\ lastOp'.op = "togglePause" => players' = players
        /\ NewlyDrafted # {}
              => lastOp'.op \in {"pickEvent", "pickSnapshot", "toggleDrafted"} ]_vars

\* the sync was resumed right after a pick of an undrafted player of the
\* roster was ignored, and the player is still undrafted
C36_Witness ==
    /\ lastOp.op = "togglePause"
    /\ lastOp.id2 = 1
    /\ pre.syncStatus = "paused"
    /\ syncStatus = "active"
    /\ \E i \in 1..Len(players) : players[i].id = lastOp.id /\ ~players[i].isDrafted

AllDrafted(ps) == \A i \in 1..Len(ps) : ps[i].isDrafted

\* on ps exactly the player with this id became drafted, and nothing else of
\* the roster before changed
DraftedJustOne(before, ps, id) ==
    /\ Len(ps) = Len(before)
    /\ \A i \in 1..Len(ps) :
          ps[i] = IF before[i].id = id THEN [before[i] EXCEPT !.isDrafted = TRUE]
                  ELSE before[i]

\* C37: simulation variant, while drafting stays on and the timer keeps
\* firing: a tick that finds undrafted players drafts exactly one, the one
\* with the lowest rank among them; a tick that finds none leaves the roster
\* and switches drafting off; and once drafting is on, eventually every
\* player is drafted and drafting is off, whatever reorders and tag toggles
\* the user makes in between.
C37_DraftRunsToTheEnd ==
    /\ [][ lastOp'.op = "tick" =>
              IF AllDrafted(players)
              THEN players' = players /\ ~isDrafting'
              ELSE \E i \in 1..Len(players) :
                      /\ ~players[i].isDrafted
                      /\ \A j \in 1..Len(players) :
                            ~players[j].isDrafted => players[i].rank <= players[j].rank
                      /\ DraftedJustOne(players, players', players[i].id)
                      /\ isDrafting' = isDrafting ]_vars
    /\ isDrafting ~> (AllDrafted(players) /\ ~isDrafting)

\* a tick has drafted a player from a roster on which a drafted player had a
\* greater rank than an undrafted one (the roster was reordered after a tick
\* had drafted), and a player carries a tag the user gave
C37_Witness ==
    /\ lastOp.op = "tick"
    /\ isDrafting
    /\ players # pre.players
    /\ \E i, j \in 1..Len(pre.players) :
          /\ pre.players[i].isDrafted /\ ~pre.players[j].isDrafted
          /\ pre.players[i].rank > pre.players[j].rank
    /\ \E i \in 1..Len(players) : Includes(players[i].tags, "Bust")

\* the draft has run to its end over a roster that was reordered
C37_WitnessEnd ==
    /\ lastOp.op = "tick"
    /\ AllDrafted(players)
    /\ ~isDrafting
    /\ \E i \in 1..Len(players) : players[i].id # PLAYERS_DATA[i].id

====
